---- MODULE Spec2Model ----
(***************************************************************************)
(* Paragraph line-breaking and hyphenation engine of the reader firmware:  *)
(* ParsedText (word buffer, DP and greedy line breakers, line extraction)  *)
(* and the Hyphenator facade.  Words are byte sequences (UTF-8), indices   *)
(* and byte offsets are 0-based as in the C++ source; s[i + 1] reads the   *)
(* element at C++ index i.                                                 *)
(***************************************************************************)
EXTENDS Integers, Sequences, FiniteSets, TLC

\* ------------------------------------------------------------------------
\* Bounds of the exploration.
\* ------------------------------------------------------------------------
MaxAdds == 3
MaxPagedAdds == 2
MaxLayouts == 2
MaxLoopAdds == 2

\* ------------------------------------------------------------------------
\* Machine integers.
\* ------------------------------------------------------------------------
MAX_COST == 2147483647

ToUint16(x) == x % 65536

\* An unsigned 16x16-bit product as two 16-bit limbs (hi * 2^16 + lo); the
\* model's integers are 32-bit, the source computes the square in long long.
WideSquare(a) ==
  LET ah == a \div 256
      al == a % 256
      t1 == a * ah
      t2 == (t1 % 256) * 256 + a * al
  IN [hi |-> (t1 \div 256) + (t2 \div 65536), lo |-> t2 % 65536]

\* cost_ll > MAX_COST for cost_ll = remainingSpace^2 + next, next in 0..MAX_COST.
WideExceedsMax(sq, next) ==
  \/ sq.hi >= 32768
  \/ sq.hi * 65536 + sq.lo > MAX_COST - next

\* The low 32 bits of (sq + next) read as a signed int.
WrapInt32(sq, next) ==
  LET base == IF sq.hi >= 32768 THEN (sq.hi - 65536) * 65536 + sq.lo
              ELSE sq.hi * 65536 + sq.lo
  IN IF base > MAX_COST - next THEN (base - MAX_COST) + (next - MAX_COST) - 2
     ELSE base + next

\* int / size_t on the 32-bit target: the int is converted to unsigned, the
\* quotient is stored back into an int.
UDiv32(x, d) ==
  IF x >= 0 THEN x \div d
  ELSE IF d = 1 THEN x
  ELSE LET z == MAX_COST + x + 1
       IN (MAX_COST \div d) + (z \div d) + (((MAX_COST % d) + (z % d) + 1) \div d)

\* ------------------------------------------------------------------------
\* Byte strings.
\* ------------------------------------------------------------------------
SOFT_HYPHEN_UTF8 == <<194, 173>>
SOFT_HYPHEN_BYTES == Len(SOFT_HYPHEN_UTF8)
INDENT_UTF8 == <<226, 128, 131>>
HYPHEN_CHAR == <<45>>
npos == -1

Substr(s, off, n) == SubSeq(s, off + 1, off + n)
SubstrFrom(s, off) == SubSeq(s, off + 1, Len(s))
Erase(s, off, n) == SubSeq(s, 1, off) \o SubSeq(s, off + n + 1, Len(s))

MatchesAt(s, pat, off) ==
  /\ off + Len(pat) <= Len(s)
  /\ \A k \in 1..Len(pat) : s[off + k] = pat[k]

\* std::string::find(pat, pos)
Find(s, pat, pos) ==
  LET hits == {o \in pos..Len(s) : MatchesAt(s, pat, o)}
  IN IF hits = {} THEN npos ELSE CHOOSE o \in hits : \A p \in hits : o <= p

containsSoftHyphen(word) == Find(word, SOFT_HYPHEN_UTF8, 0) # npos

\* Erasing only the first marker.
stripSoftHyphensInPlaceOnce(word) ==
  LET p == Find(word, SOFT_HYPHEN_UTF8, 0)
  IN IF p = npos THEN word ELSE Erase(word, p, SOFT_HYPHEN_BYTES)

RECURSIVE stripLoop(_, _)
stripLoop(word, pos) ==
  LET p == Find(word, SOFT_HYPHEN_UTF8, pos)
  IN IF p = npos THEN word ELSE stripLoop(Erase(word, p, SOFT_HYPHEN_BYTES), p)

stripSoftHyphensInPlace(word) == stripLoop(word, 0)


\* ------------------------------------------------------------------------
\* The renderer: getTextWidth adds up glyph advances; bold glyphs are one
\* pixel wider.  A soft hyphen that reaches the renderer draws a glyph.
\* ------------------------------------------------------------------------
Utf8SeqLen(b) == IF b < 128 THEN 1 ELSE IF b < 224 THEN 2 ELSE 3

Utf8Value(word, off) ==
  LET b == word[off + 1]
  IN IF b < 128 THEN b
     ELSE IF b < 224 THEN (b % 32) * 64 + (word[off + 2] % 64)
     ELSE (b % 16) * 4096 + (word[off + 2] % 64) * 64 + (word[off + 3] % 64)

RECURSIVE collectFrom(_, _)
collectFrom(word, off) ==
  IF off >= Len(word) THEN <<>>
  ELSE <<[value |-> Utf8Value(word, off), byteOffset |-> off]>>
         \o collectFrom(word, off + Utf8SeqLen(word[off + 1]))

collectCodepoints(word) == collectFrom(word, 0)

GlyphAdvance(cp) ==
  CASE cp = 97 -> 2
    [] cp = 98 -> 3
    [] cp = 87 -> 21845
    [] cp = 45 -> 1
    [] cp = 46 -> 1
    [] cp = 173 -> 2
    [] cp = 8195 -> 4
    [] OTHER -> 2

RECURSIVE SumAdvance(_, _, _)
SumAdvance(cps, k, bold) ==
  IF k > Len(cps) THEN 0
  ELSE GlyphAdvance(cps[k].value) + (IF bold THEN 1 ELSE 0) + SumAdvance(cps, k + 1, bold)

getTextWidth(text, fontStyle) ==
  SumAdvance(collectCodepoints(text), 1, fontStyle \in {"BOLD", "BOLD_ITALIC"})

\* The prefix of a split measured without the hyphen it will carry.
measureWordWidthForgetsHyphen(word, fontStyle, appendHyphen) ==
  ToUint16(getTextWidth(IF containsSoftHyphen(word) THEN stripSoftHyphensInPlace(word) ELSE word,
                        fontStyle))

measureWordWidth(word, fontStyle, appendHyphen) ==
  LET hasSoftHyphen == containsSoftHyphen(word)
  IN IF ~hasSoftHyphen /\ ~appendHyphen THEN ToUint16(getTextWidth(word, fontStyle))
     ELSE LET s1 == IF hasSoftHyphen THEN stripSoftHyphensInPlace(word) ELSE word
              s2 == IF appendHyphen THEN s1 \o HYPHEN_CHAR ELSE s1
          IN ToUint16(getTextWidth(s2, fontStyle))

\* ------------------------------------------------------------------------
\* Hyphenation primitives.
\* ------------------------------------------------------------------------
isSoftHyphen(cp) == cp = 173
isExplicitHyphen(cp) == cp \in {45, 173}
isLatinLetter(cp) == cp \in (65..90) \cup (97..122)
isCyrillicLetter(cp) == cp \in 1024..1327
isAlphabetic(cp) == isLatinLetter(cp) \/ isCyrillicLetter(cp)
isPunctuation(cp) == cp \in {33, 34, 39, 40, 41, 44, 45, 46, 58, 59, 63}
toLowerLatin(cp) == IF cp \in 65..90 THEN cp + 32 ELSE cp
toLowerCyrillic(cp) == IF cp \in 1040..1071 THEN cp + 32 ELSE cp

RECURSIVE trimFront(_)
trimFront(cps) ==
  IF cps # <<>> /\ isPunctuation(Head(cps).value) THEN trimFront(Tail(cps)) ELSE cps

RECURSIVE trimBack(_)
trimBack(cps) ==
  IF cps # <<>> /\ isPunctuation(cps[Len(cps)].value)
  THEN trimBack(SubSeq(cps, 1, Len(cps) - 1)) ELSE cps

trimSurroundingPunctuationAndFootnote(cps) == trimBack(trimFront(cps))

\* ------------------------------------------------------------------------
\* Language hyphenators and the registry.
\* ------------------------------------------------------------------------
kDefaultMinPrefix == 2
kDefaultMinSuffix == 2

Languages == {"en", "fr", "de", "ru"}

minPrefix(lang) == IF lang = "en" THEN 3 ELSE kDefaultMinPrefix
minSuffix(lang) == IF lang = "en" THEN 3 ELSE kDefaultMinSuffix

isLetterOf(lang, cp) == IF lang = "ru" THEN isCyrillicLetter(cp) ELSE isLatinLetter(cp)
toLowerOf(lang, cp) == IF lang = "ru" THEN toLowerCyrillic(cp) ELSE toLowerLatin(cp)

\* Compiled pattern tables: letters (46 is the word-boundary marker) and one
\* weight per gap, before the first letter through after the last.
Patterns(lang) ==
  CASE lang = "en" -> {[pat |-> <<97, 98>>, w |-> <<0, 1, 0>>]}
    [] lang = "fr" -> {[pat |-> <<98, 97>>, w |-> <<0, 1, 0>>]}
    [] lang = "de" -> {[pat |-> <<98, 97>>, w |-> <<0, 1, 0>>],
                       [pat |-> <<46, 97, 98>>, w |-> <<0, 0, 0, 2>>]}
    [] OTHER -> {[pat |-> <<1072, 1073>>, w |-> <<0, 1, 0>>]}

\* Start offsets in the augmented word at which a pattern matches.
MatchStarts(aug, pat) ==
  {s \in 0..(Len(aug) - Len(pat)) : \A k \in 1..Len(pat) : aug[s + k] = pat[k]}

\* Weights voted for the gap before codepoint idx (augmented index idx + 1).
GapVotes(lang, aug, idx) ==
  UNION {{p.w[(idx + 1 - s) + 1] :
            s \in {t \in MatchStarts(aug, p.pat) : idx + 1 - t \in 0..Len(p.pat)}} :
         p \in Patterns(lang)}

SetMax(S) == IF S = {} THEN 0 ELSE CHOOSE m \in S : \A x \in S : x <= m

RECURSIVE Ascending(_)
Ascending(S) ==
  IF S = {} THEN <<>>
  ELSE LET m == CHOOSE x \in S : \A y \in S : x <= y
       IN <<m>> \o Ascending(S \ {m})

\* The gaps with an odd vote, the minimum prefix and suffix not applied.
breakIndexesUnfiltered(lang, cps) ==
  LET n == Len(cps)
      aug == <<46>> \o [k \in 1..n |-> toLowerOf(lang, cps[k].value)] \o <<46>>
  IN IF \E k \in 1..n : ~isLetterOf(lang, cps[k].value) THEN <<>>
     ELSE Ascending({idx \in 1..(n - 1) : SetMax(GapVotes(lang, aug, idx)) % 2 = 1})

breakIndexes(lang, cps) ==
  LET n == Len(cps)
      aug == <<46>> \o [k \in 1..n |-> toLowerOf(lang, cps[k].value)] \o <<46>>
  IN IF \E k \in 1..n : ~isLetterOf(lang, cps[k].value) THEN <<>>
     ELSE Ascending({idx \in 1..(n - 1) :
                       /\ SetMax(GapVotes(lang, aug, idx)) % 2 = 1
                       /\ minPrefix(lang) <= idx
                       /\ idx + minSuffix(lang) <= n})

LanguageTags == [en |-> <<101, 110>>, fr |-> <<102, 114>>, de |-> <<100, 101>>, ru |-> <<114, 117>>]

getLanguageHyphenatorForPrimaryTag(primaryTag) ==
  IF \E l \in Languages : LanguageTags[l] = primaryTag
  THEN CHOOSE l \in Languages : LanguageTags[l] = primaryTag
  ELSE "none"

\* The primary subtag cut at '-' only.
RECURSIVE primarySubtagHyphenOnly(_, _)
primarySubtagHyphenOnly(langTag, k) ==
  IF k > Len(langTag) \/ langTag[k] = 45 THEN <<>>
  ELSE <<(IF langTag[k] \in 65..90 THEN langTag[k] - 65 + 97 ELSE langTag[k])>>
         \o primarySubtagHyphenOnly(langTag, k + 1)

RECURSIVE primarySubtag(_, _)
primarySubtag(langTag, k) ==
  IF k > Len(langTag) \/ langTag[k] \in {45, 95} THEN <<>>
  ELSE <<(IF langTag[k] \in 65..90 THEN langTag[k] - 65 + 97 ELSE langTag[k])>>
         \o primarySubtag(langTag, k + 1)

\* The language request dropped: no hyphenator whatever the tag.
hyphenatorForLanguageNone(langTag) == "none"

hyphenatorForLanguage(langTag) ==
  IF langTag = <<>> THEN "none"
  ELSE LET primary == primarySubtag(langTag, 1)
       IN IF primary = <<>> THEN "none" ELSE getLanguageHyphenatorForPrimaryTag(primary)

\* ------------------------------------------------------------------------
\* Hyphenator facade.
\* ------------------------------------------------------------------------
byteOffsetForIndex(cps, index) ==
  IF index < Len(cps) THEN cps[index + 1].byteOffset
  ELSE IF cps = <<>> THEN 0 ELSE cps[Len(cps)].byteOffset

RECURSIVE explicitFrom(_, _)
explicitFrom(cps, i) ==
  IF i + 1 >= Len(cps) THEN <<>>
  ELSE LET cp == cps[i + 1].value
           rest == explicitFrom(cps, i + 1)
       IN IF ~isExplicitHyphen(cp) \/ ~isAlphabetic(cps[i].value) \/ ~isAlphabetic(cps[i + 2].value)
          THEN rest
          ELSE <<[byteOffset |-> cps[i + 2].byteOffset,
                  requiresInsertedHyphen |-> isSoftHyphen(cp)]>> \o rest

\* Every explicit break reported at the byte offset of the marker itself.
buildExplicitBreakInfosAtMarker(cps) ==
  LET found == explicitFrom(cps, 1)
      markerAt(off) == CHOOSE k \in 1..Len(cps) : k < Len(cps) /\ cps[k + 1].byteOffset = off
  IN [k \in 1..Len(found) |->
        [found[k] EXCEPT !.byteOffset = cps[markerAt(found[k].byteOffset)].byteOffset]]

\* Every explicit break reported as needing an inserted hyphen.
buildExplicitBreakInfosAllInserted(cps) ==
  LET found == explicitFrom(cps, 1)
  IN [k \in 1..Len(found) |-> [found[k] EXCEPT !.requiresInsertedHyphen = TRUE]]

buildExplicitBreakInfos(cps) == explicitFrom(cps, 1)

RECURSIVE fallbackIndexes(_, _, _)
fallbackIndexes(idx, minSuf, n) ==
  IF idx + minSuf <= n THEN <<idx>> \o fallbackIndexes(idx + 1, minSuf, n) ELSE <<>>

\* The fallback synthesized whether or not the caller asked for it.
languageIndexesIgnoresFlag(cps, includeFallback, hyphenator, langIndexes) ==
  IF langIndexes = <<>>
  THEN fallbackIndexes(IF hyphenator # "none" THEN minPrefix(hyphenator) ELSE kDefaultMinPrefix,
                       IF hyphenator # "none" THEN minSuffix(hyphenator) ELSE kDefaultMinSuffix,
                       Len(cps))
  ELSE langIndexes

\* breakOffsets: indexes from the language hyphenator, else the fallback.
languageIndexes(cps, includeFallback, hyphenator, langIndexes) ==
  IF includeFallback /\ langIndexes = <<>>
  THEN fallbackIndexes(IF hyphenator # "none" THEN minPrefix(hyphenator) ELSE kDefaultMinPrefix,
                       IF hyphenator # "none" THEN minSuffix(hyphenator) ELSE kDefaultMinSuffix,
                       Len(cps))
  ELSE langIndexes

\* breakOffsets: every index becomes a break that needs an inserted hyphen.
indexBreaks(cps, indexes) ==
  [k \in 1..Len(indexes) |->
     [byteOffset |-> byteOffsetForIndex(cps, indexes[k]), requiresInsertedHyphen |-> TRUE]]

\* breakOffsets after the explicit markers have been collected.
breaksAfterExplicit(cps, explicitBreakInfos, includeFallback, hyphenator) ==
  IF explicitBreakInfos # <<>> THEN explicitBreakInfos
  ELSE indexBreaks(cps, languageIndexes(cps, includeFallback, hyphenator,
                                        IF hyphenator # "none" THEN breakIndexes(hyphenator, cps)
                                        ELSE <<>>))

\* breakOffsets on the trimmed codepoints.
breaksOfCodepoints(cps, includeFallback, hyphenator) ==
  breaksAfterExplicit(cps, buildExplicitBreakInfos(cps), includeFallback, hyphenator)

breakOffsets(word, includeFallback, hyphenator) ==
  IF word = <<>> THEN <<>>
  ELSE breaksOfCodepoints(trimSurroundingPunctuationAndFootnote(collectCodepoints(word)),
                          includeFallback, hyphenator)


\* ------------------------------------------------------------------------
\* ParsedText.  A buffer value carries the live lists (words, wordStyles),
\* the width cache of the running layout call (wordWidths), and two pieces
\* of bookkeeping that travel with the list nodes: tags (the addWord serial
\* number of each node and whether a split appended a hyphen to it) and
\* log (one record per hyphenateWordAtIndex call).
\* ------------------------------------------------------------------------
InsertAt(seq, idx, x) == SubSeq(seq, 1, idx) \o <<x>> \o SubSeq(seq, idx + 1, Len(seq))

\* The loop keeping the first prefix that fits instead of the widest.
considerBreakFirstFit(chosen, offset, needsHyphen, wordSize, prefixWidth, availableWidth) ==
  IF offset = 0 \/ offset >= wordSize THEN chosen
  ELSE IF prefixWidth > availableWidth \/ chosen.chosenWidth >= 0 THEN chosen
  ELSE [chosenOffset |-> offset, chosenWidth |-> prefixWidth, chosenNeedsHyphen |-> needsHyphen]

\* One iteration of the best-fit loop: the candidate replaces the choice
\* when it is a real split, fits, and is wider than the choice so far.
considerBreak(chosen, offset, needsHyphen, wordSize, prefixWidth, availableWidth) ==
  IF offset = 0 \/ offset >= wordSize THEN chosen
  ELSE IF prefixWidth > availableWidth \/ prefixWidth <= chosen.chosenWidth THEN chosen
  ELSE [chosenOffset |-> offset, chosenWidth |-> prefixWidth, chosenNeedsHyphen |-> needsHyphen]

RECURSIVE chooseBreak(_, _, _, _, _, _)
chooseBreak(breakInfos, k, word, fontStyle, availableWidth, chosen) ==
  IF k > Len(breakInfos) THEN chosen
  ELSE chooseBreak(breakInfos, k + 1, word, fontStyle, availableWidth,
                   considerBreak(chosen, breakInfos[k].byteOffset,
                                 breakInfos[k].requiresInsertedHyphen, Len(word),
                                 measureWordWidth(Substr(word, 0, breakInfos[k].byteOffset),
                                                  fontStyle,
                                                  breakInfos[k].requiresInsertedHyphen),
                                 availableWidth))

\* The split inserting the remainder without a style for it.
splitWordAtForgetsStyle(buf, wordIndex, chosen, remainderWidth) ==
  [words |-> InsertAt([buf.words EXCEPT ![wordIndex + 1] =
                         Substr(@, 0, chosen.chosenOffset)
                           \o (IF chosen.chosenNeedsHyphen THEN HYPHEN_CHAR ELSE <<>>)],
                      wordIndex + 1, SubstrFrom(buf.words[wordIndex + 1], chosen.chosenOffset)),
   wordStyles |-> buf.wordStyles,
   wordWidths |-> InsertAt([buf.wordWidths EXCEPT ![wordIndex + 1] = ToUint16(chosen.chosenWidth)],
                           wordIndex + 1, remainderWidth),
   tags |-> InsertAt([buf.tags EXCEPT ![wordIndex + 1] = [@ EXCEPT !.ins = chosen.chosenNeedsHyphen]],
                     wordIndex + 1, buf.tags[wordIndex + 1]),
   log |-> buf.log]

\* The split leaving the cached width of the whole word on the prefix.
splitWordAtStaleWidth(buf, wordIndex, chosen, remainderWidth) ==
  [words |-> InsertAt([buf.words EXCEPT ![wordIndex + 1] =
                         Substr(@, 0, chosen.chosenOffset)
                           \o (IF chosen.chosenNeedsHyphen THEN HYPHEN_CHAR ELSE <<>>)],
                      wordIndex + 1, SubstrFrom(buf.words[wordIndex + 1], chosen.chosenOffset)),
   wordStyles |-> InsertAt(buf.wordStyles, wordIndex + 1, buf.wordStyles[wordIndex + 1]),
   wordWidths |-> InsertAt(buf.wordWidths, wordIndex + 1, remainderWidth),
   tags |-> InsertAt([buf.tags EXCEPT ![wordIndex + 1] = [@ EXCEPT !.ins = chosen.chosenNeedsHyphen]],
                     wordIndex + 1, buf.tags[wordIndex + 1]),
   log |-> buf.log]

\* The split appending a hyphen to every prefix.
splitWordAtAlwaysHyphen(buf, wordIndex, chosen, remainderWidth) ==
  [words |-> InsertAt([buf.words EXCEPT ![wordIndex + 1] =
                         Substr(@, 0, chosen.chosenOffset) \o HYPHEN_CHAR],
                      wordIndex + 1, SubstrFrom(buf.words[wordIndex + 1], chosen.chosenOffset)),
   wordStyles |-> InsertAt(buf.wordStyles, wordIndex + 1, buf.wordStyles[wordIndex + 1]),
   wordWidths |-> InsertAt([buf.wordWidths EXCEPT ![wordIndex + 1] = ToUint16(chosen.chosenWidth)],
                           wordIndex + 1, remainderWidth),
   tags |-> InsertAt([buf.tags EXCEPT ![wordIndex + 1] = [@ EXCEPT !.ins = chosen.chosenNeedsHyphen]],
                     wordIndex + 1, buf.tags[wordIndex + 1]),
   log |-> buf.log]

\* The split itself: prefix (with its hyphen) and remainder replace the word.
splitWordAt(buf, wordIndex, chosen, remainderWidth) ==
  [words |-> InsertAt([buf.words EXCEPT ![wordIndex + 1] =
                         Substr(@, 0, chosen.chosenOffset)
                           \o (IF chosen.chosenNeedsHyphen THEN HYPHEN_CHAR ELSE <<>>)],
                      wordIndex + 1, SubstrFrom(buf.words[wordIndex + 1], chosen.chosenOffset)),
   wordStyles |-> InsertAt(buf.wordStyles, wordIndex + 1, buf.wordStyles[wordIndex + 1]),
   wordWidths |-> InsertAt([buf.wordWidths EXCEPT ![wordIndex + 1] = ToUint16(chosen.chosenWidth)],
                           wordIndex + 1, remainderWidth),
   tags |-> InsertAt([buf.tags EXCEPT ![wordIndex + 1] = [@ EXCEPT !.ins = chosen.chosenNeedsHyphen]],
                     wordIndex + 1, buf.tags[wordIndex + 1]),
   log |-> buf.log]

\* hyphenateWordAtIndex after the best-fit loop; logged is the buffer with
\* this call entered in the log.
hyphenateChosen(logged, wordIndex, chosen) ==
  IF chosen.chosenWidth < 0 THEN [ok |-> FALSE, buf |-> logged]
  ELSE [ok |-> TRUE,
        buf |-> splitWordAt(logged, wordIndex, chosen,
                            ToUint16(measureWordWidth(SubstrFrom(logged.words[wordIndex + 1],
                                                                 chosen.chosenOffset),
                                                      logged.wordStyles[wordIndex + 1], FALSE)))]

logSplit(buf, wordIndex, availableWidth, allowFallbackBreaks, hyphenator, chosen) ==
  [buf EXCEPT !.log = Append(@,
     [word |-> buf.words[wordIndex + 1], fontStyle |-> buf.wordStyles[wordIndex + 1],
      wordIndex |-> wordIndex, availableWidth |-> availableWidth,
      allowFallbackBreaks |-> allowFallbackBreaks, hyphenator |-> hyphenator,
      split |-> chosen.chosenWidth >= 0, chosenOffset |-> chosen.chosenOffset,
      chosenNeedsHyphen |-> chosen.chosenNeedsHyphen])]

hyphenateWithChoice(buf, wordIndex, availableWidth, allowFallbackBreaks, hyphenator, chosen) ==
  hyphenateChosen(logSplit(buf, wordIndex, availableWidth, allowFallbackBreaks, hyphenator, chosen),
                  wordIndex, chosen)

hyphenateWordAtIndex(buf, wordIndex, availableWidth, allowFallbackBreaks, hyphenator) ==
  IF availableWidth <= 0 \/ wordIndex >= Len(buf.words) THEN [ok |-> FALSE, buf |-> buf]
  ELSE hyphenateWithChoice(buf, wordIndex, availableWidth, allowFallbackBreaks, hyphenator,
         chooseBreak(breakOffsets(buf.words[wordIndex + 1], allowFallbackBreaks, hyphenator), 1,
                     buf.words[wordIndex + 1], buf.wordStyles[wordIndex + 1], availableWidth,
                     [chosenOffset |-> 0, chosenWidth |-> -1, chosenNeedsHyphen |-> TRUE]))

calculateWordWidths(words, wordStyles) ==
  [k \in 1..Len(words) |-> measureWordWidth(words[k], wordStyles[k], FALSE)]

\* The pre-pass of computeLineBreaks: split every word wider than the page.
RECURSIVE preSplit(_, _, _, _)
RECURSIVE preSplitAfter(_, _, _, _)
\* The pre-pass stepping over the remainder a split has inserted.
preSplitAfterSkipsRemainder(r, i, pageWidth, hyphenator) ==
  IF r.ok THEN preSplit(r.buf, i + 2, pageWidth, hyphenator)
  ELSE preSplit(r.buf, i + 1, pageWidth, hyphenator)

preSplitAfter(r, i, pageWidth, hyphenator) ==
  IF r.ok THEN preSplit(r.buf, i, pageWidth, hyphenator)
  ELSE preSplit(r.buf, i + 1, pageWidth, hyphenator)

preSplit(buf, i, pageWidth, hyphenator) ==
  IF i >= Len(buf.wordWidths) THEN buf
  ELSE IF buf.wordWidths[i + 1] > pageWidth
  THEN preSplitAfter(hyphenateWordAtIndex(buf, i, pageWidth, TRUE, hyphenator),
                     i, pageWidth, hyphenator)
  ELSE preSplit(buf, i + 1, pageWidth, hyphenator)

\* The cost computed in int, without the long long and the clamp.
LineCostNarrow(remainingSpace, next) == WrapInt32(WideSquare(remainingSpace), next)

\* The cost growing with the slack itself instead of its square.
LineCostLinear(remainingSpace, next) ==
  IF remainingSpace + next > MAX_COST THEN MAX_COST ELSE remainingSpace + next

\* cost of a non-final line: remainingSpace^2 + dp[j + 1], saturated.
LineCost(remainingSpace, next) ==
  LET sq == WideSquare(remainingSpace)
  IN IF WideExceedsMax(sq, next) THEN MAX_COST ELSE sq.hi * 65536 + sq.lo + next

\* The first candidate that has a finite cost kept, later ones ignored.
dpStoreFirstFit(t, i, j, cost, sat) ==
  IF cost < t.dp[i + 1] /\ t.dp[i + 1] = MAX_COST
  THEN [t EXCEPT !.dp[i + 1] = cost, !.ans[i + 1] = j,
                 !.stored = @ \cup {cost}, !.saturated = @ \/ sat]
  ELSE [t EXCEPT !.saturated = @ \/ sat]

\* The table state t is [dp, ans, stored, saturated, forced]: the two
\* vectors, every value ever written into dp, whether a cost exceeded
\* MAX_COST, and the indices given a forced single-word line.
dpStore(t, i, j, cost, sat) ==
  IF cost < t.dp[i + 1]
  THEN [t EXCEPT !.dp[i + 1] = cost, !.ans[i + 1] = j,
                 !.stored = @ \cup {cost}, !.saturated = @ \/ sat]
  ELSE [t EXCEPT !.saturated = @ \/ sat]

\* The inner loop over j for one i.
RECURSIVE dpInner(_, _, _, _, _, _, _)
RECURSIVE dpInnerAt(_, _, _, _, _, _, _)
dpInnerAt(t, i, j, currlen, wordWidths, pageWidth, spaceWidth) ==
  IF currlen > pageWidth THEN t
  ELSE dpInner(dpStore(t, i, j,
                       IF j = Len(wordWidths) - 1 THEN 0
                       ELSE LineCost(pageWidth - currlen, t.dp[j + 2]),
                       j # Len(wordWidths) - 1
                         /\ WideExceedsMax(WideSquare(pageWidth - currlen), t.dp[j + 2])),
               i, j + 1, currlen, wordWidths, pageWidth, spaceWidth)

dpInner(t, i, j, currlenIn, wordWidths, pageWidth, spaceWidth) ==
  IF j >= Len(wordWidths) THEN t
  ELSE dpInnerAt(t, i, j, currlenIn + wordWidths[j + 1] + spaceWidth,
                 wordWidths, pageWidth, spaceWidth)

\* The forced line recorded by the index of the next line's first word
\* instead of the index of its own last word.
dpForceOffByOne(t, i, totalWordCount) ==
  IF t.dp[i + 1] = MAX_COST
  THEN [t EXCEPT !.ans[i + 1] = i + 1,
                 !.dp[i + 1] = IF i + 1 < totalWordCount THEN t.dp[i + 2] ELSE 0,
                 !.stored = @ \cup {IF i + 1 < totalWordCount THEN t.dp[i + 2] ELSE 0},
                 !.forced = @ \cup {i}]
  ELSE t

\* No line starting at i fits: a forced single-word line that inherits the
\* cost of the next index.
dpForce(t, i, totalWordCount) ==
  IF t.dp[i + 1] = MAX_COST
  THEN [t EXCEPT !.ans[i + 1] = i,
                 !.dp[i + 1] = IF i + 1 < totalWordCount THEN t.dp[i + 2] ELSE 0,
                 !.stored = @ \cup {IF i + 1 < totalWordCount THEN t.dp[i + 2] ELSE 0},
                 !.forced = @ \cup {i}]
  ELSE t

RECURSIVE dpOuter(_, _, _, _, _)
dpOuter(t, i, wordWidths, pageWidth, spaceWidth) ==
  IF i < 0 THEN t
  ELSE dpOuter(dpForce(dpInner([t EXCEPT !.dp[i + 1] = MAX_COST, !.stored = @ \cup {MAX_COST}],
                               i, i, -spaceWidth, wordWidths, pageWidth, spaceWidth),
                       i, Len(wordWidths)),
               i - 1, wordWidths, pageWidth, spaceWidth)

dpTable(wordWidths, pageWidth, spaceWidth) ==
  dpOuter([dp |-> [k \in 1..Len(wordWidths) |-> 0],
           ans |-> [k \in 1..Len(wordWidths) |->
                      IF k = Len(wordWidths) THEN Len(wordWidths) - 1 ELSE 0],
           stored |-> {0}, saturated |-> FALSE, forced |-> {}],
          Len(wordWidths) - 2, wordWidths, pageWidth, spaceWidth)

\* The reconstruction loop stopping one word short.
RECURSIVE reconstructStopsEarly(_, _, _)
reconstructStopsEarly(ans, currentWordIndex, totalWordCount) ==
  IF currentWordIndex >= totalWordCount - 1 THEN <<>>
  ELSE LET raw == ans[currentWordIndex + 1] + 1
           nextBreakIndex == IF raw <= currentWordIndex THEN currentWordIndex + 1 ELSE raw
       IN <<nextBreakIndex>> \o reconstructStopsEarly(ans, nextBreakIndex, totalWordCount)

RECURSIVE reconstruct(_, _, _)
reconstruct(ans, currentWordIndex, totalWordCount) ==
  IF currentWordIndex >= totalWordCount THEN <<>>
  ELSE LET raw == ans[currentWordIndex + 1] + 1
           nextBreakIndex == IF raw <= currentWordIndex THEN currentWordIndex + 1 ELSE raw
       IN <<nextBreakIndex>> \o reconstruct(ans, nextBreakIndex, totalWordCount)

\* computeLineBreaks after the pre-pass: the table, then the break list.
breaksFromTable(buf, t) ==
  [buf |-> buf, lineBreakIndices |-> reconstruct(t.ans, 0, Len(buf.words)), table |-> t]

breaksAfterPreSplit(buf, pageWidth, spaceWidth) ==
  breaksFromTable(buf, dpTable(buf.wordWidths, pageWidth, spaceWidth))

computeLineBreaks(bufIn, pageWidth, spaceWidth, hyphenator) ==
  IF bufIn.words = <<>>
  THEN [buf |-> bufIn, lineBreakIndices |-> <<>>,
        table |-> [dp |-> <<>>, ans |-> <<>>, stored |-> {}, saturated |-> FALSE, forced |-> {}]]
  ELSE breaksAfterPreSplit(preSplit(bufIn, 0, pageWidth, hyphenator), pageWidth, spaceWidth)

\* The greedy breaker after its attempt to split the overflowing word: the
\* prefix closes the line, or the line is closed before the word, or, when
\* the word is the first of its line, with the word on it.
greedyAfterSplit(r, currentIndex, lineStart) ==
  IF r.ok THEN [buf |-> r.buf, currentIndex |-> currentIndex + 1]
  ELSE [buf |-> r.buf,
        currentIndex |-> IF currentIndex = lineStart THEN currentIndex + 1 ELSE currentIndex]

\* The inner loop of the greedy breaker: one line.
RECURSIVE greedyLine(_, _, _, _, _, _, _)
RECURSIVE greedyWord(_, _, _, _, _, _, _, _)
greedyWord(buf, currentIndex, lineStart, lineWidth, pageWidth, spaceWidth, hyphenator, spacing) ==
  IF lineWidth + spacing + buf.wordWidths[currentIndex + 1] <= pageWidth
  THEN greedyLine(buf, currentIndex + 1, lineStart,
                  lineWidth + spacing + buf.wordWidths[currentIndex + 1],
                  pageWidth, spaceWidth, hyphenator)
  ELSE IF pageWidth - lineWidth - spacing > 0
  THEN greedyAfterSplit(hyphenateWordAtIndex(buf, currentIndex, pageWidth - lineWidth - spacing,
                                             currentIndex = lineStart, hyphenator),
                        currentIndex, lineStart)
  ELSE [buf |-> buf,
        currentIndex |-> IF currentIndex = lineStart THEN currentIndex + 1 ELSE currentIndex]

greedyLine(buf, currentIndex, lineStart, lineWidth, pageWidth, spaceWidth, hyphenator) ==
  IF currentIndex >= Len(buf.wordWidths) THEN [buf |-> buf, currentIndex |-> currentIndex]
  ELSE greedyWord(buf, currentIndex, lineStart, lineWidth, pageWidth, spaceWidth, hyphenator,
                  IF currentIndex = lineStart THEN 0 ELSE spaceWidth)

\* lineBreakIndices.push_back(currentIndex), seen from the end of the loop.
pushFront(currentIndex, rest) ==
  [buf |-> rest.buf, lineBreakIndices |-> <<currentIndex>> \o rest.lineBreakIndices]

RECURSIVE greedyLines(_, _, _, _, _)
RECURSIVE greedyRest(_, _, _, _)
greedyRest(l, pageWidth, spaceWidth, hyphenator) ==
  pushFront(l.currentIndex, greedyLines(l.buf, l.currentIndex, pageWidth, spaceWidth, hyphenator))

greedyLines(buf, currentIndex, pageWidth, spaceWidth, hyphenator) ==
  IF currentIndex >= Len(buf.wordWidths) THEN [buf |-> buf, lineBreakIndices |-> <<>>]
  ELSE greedyRest(greedyLine(buf, currentIndex, currentIndex, 0, pageWidth, spaceWidth, hyphenator),
                  pageWidth, spaceWidth, hyphenator)

computeHyphenatedLineBreaks(buf, pageWidth, spaceWidth, hyphenator) ==
  greedyLines(buf, 0, pageWidth, spaceWidth, hyphenator)

\* ------------------------------------------------------------------------
\* The loops of the two breakers, one iteration at a time.
\* ------------------------------------------------------------------------
\* The pre-pass after one call of hyphenateWordAtIndex: the while loop tests
\* the same word again after a split, and breaks to the next word otherwise.
preSplitOutcome(r, i) == [buf |-> r.buf, i |-> IF r.ok THEN i ELSE i + 1]

\* One test of the while condition of the pre-pass for word i.
preSplitIteration(buf, i, pageWidth, hyphenator) ==
  IF buf.wordWidths[i + 1] > pageWidth
  THEN preSplitOutcome(hyphenateWordAtIndex(buf, i, pageWidth, TRUE, hyphenator), i)
  ELSE [buf |-> buf, i |-> i + 1]

\* One iteration of the reconstruction loop: the next break index.
reconstructIteration(ans, currentWordIndex) ==
  IF ans[currentWordIndex + 1] + 1 <= currentWordIndex THEN currentWordIndex + 1
  ELSE ans[currentWordIndex + 1] + 1

\* The greedy inner loop without the forced advance of a line's first word.
greedyClosedNoForce(r, currentIndex, lineStart, lineWidth, spacing) ==
  [buf |-> r.buf,
   currentIndex |-> IF r.ok THEN currentIndex + 1 ELSE currentIndex,
   lineWidth |-> IF r.ok THEN lineWidth + spacing + r.buf.wordWidths[currentIndex + 1]
                 ELSE lineWidth,
   closed |-> TRUE]

\* The inner loop of the greedy breaker once the word does not fit: the line
\* is closed after the prefix, before the word, or after the forced word.
greedyClosed(r, currentIndex, lineStart, lineWidth, spacing) ==
  [buf |-> r.buf,
   currentIndex |-> IF r.ok \/ currentIndex = lineStart THEN currentIndex + 1 ELSE currentIndex,
   lineWidth |-> IF r.ok \/ currentIndex = lineStart
                 THEN lineWidth + spacing + r.buf.wordWidths[currentIndex + 1]
                 ELSE lineWidth,
   closed |-> TRUE]

\* The inner loop allowing fallback breaks for every overflowing word.
greedyIterationAlwaysFallback(buf, currentIndex, lineStart, lineWidth, pageWidth, hyphenator, spacing) ==
  IF lineWidth + spacing + buf.wordWidths[currentIndex + 1] <= pageWidth
  THEN [buf |-> buf, currentIndex |-> currentIndex + 1,
        lineWidth |-> lineWidth + spacing + buf.wordWidths[currentIndex + 1],
        closed |-> FALSE]
  ELSE IF pageWidth - lineWidth - spacing > 0
  THEN greedyClosed(hyphenateWordAtIndex(buf, currentIndex, pageWidth - lineWidth - spacing,
                                         TRUE, hyphenator),
                    currentIndex, lineStart, lineWidth, spacing)
  ELSE greedyClosed([ok |-> FALSE, buf |-> buf], currentIndex, lineStart, lineWidth, spacing)

\* One iteration of the inner loop of the greedy breaker.
greedyIterationWith(buf, currentIndex, lineStart, lineWidth, pageWidth, hyphenator, spacing) ==
  IF lineWidth + spacing + buf.wordWidths[currentIndex + 1] <= pageWidth
  THEN [buf |-> buf, currentIndex |-> currentIndex + 1,
        lineWidth |-> lineWidth + spacing + buf.wordWidths[currentIndex + 1],
        closed |-> FALSE]
  ELSE IF pageWidth - lineWidth - spacing > 0
  THEN greedyClosed(hyphenateWordAtIndex(buf, currentIndex, pageWidth - lineWidth - spacing,
                                         currentIndex = lineStart, hyphenator),
                    currentIndex, lineStart, lineWidth, spacing)
  ELSE greedyClosed([ok |-> FALSE, buf |-> buf], currentIndex, lineStart, lineWidth, spacing)

greedyIteration(buf, currentIndex, lineStart, lineWidth, pageWidth, spaceWidth, hyphenator) ==
  greedyIterationWith(buf, currentIndex, lineStart, lineWidth, pageWidth, hyphenator,
                      IF currentIndex = lineStart THEN 0 ELSE spaceWidth)


applyParagraphIndent(words, blockStyle, extraSpacing) ==
  IF extraSpacing \/ words = <<>> THEN words
  ELSE IF blockStyle \in {"JUSTIFIED", "LEFT_ALIGN"}
  THEN [words EXCEPT ![1] = INDENT_UTF8 \o @]
  ELSE words


RECURSIVE SumWidths(_, _, _)
SumWidths(wordWidths, from, to) ==
  IF from >= to THEN 0 ELSE wordWidths[from + 1] + SumWidths(wordWidths, from + 1, to)

RECURSIVE lineXPositions(_, _, _, _, _)
lineXPositions(wordWidths, i, lineBreak, xpos, spacing) ==
  IF i >= lineBreak THEN <<>>
  ELSE <<xpos>> \o lineXPositions(wordWidths, i + 1, lineBreak,
                                  ToUint16(xpos + wordWidths[i + 1] + spacing), spacing)

\* The gap between neighbouring words of a line.
lineSpacingDividesByWords(blockStyle, isLastLine, lineWordCount, spareSpace, spaceW) ==
  IF blockStyle = "JUSTIFIED" /\ ~isLastLine /\ lineWordCount >= 2
  THEN UDiv32(spareSpace, lineWordCount)
  ELSE spaceW

lineSpacingJustifiesLastLine(blockStyle, isLastLine, lineWordCount, spareSpace, spaceW) ==
  IF blockStyle = "JUSTIFIED" /\ lineWordCount >= 2
  THEN UDiv32(spareSpace, lineWordCount - 1)
  ELSE spaceW

lineSpacing(blockStyle, isLastLine, lineWordCount, spareSpace, spaceW) ==
  IF blockStyle = "JUSTIFIED" /\ ~isLastLine /\ lineWordCount >= 2
  THEN UDiv32(spareSpace, lineWordCount - 1)
  ELSE spaceW

\* The leading offset taken from the leftover without the base spaces.
initialXposIgnoresSpaces(blockStyle, spareSpace, lineWordCount, spaceW) ==
  IF blockStyle = "RIGHT_ALIGN" THEN ToUint16(spareSpace)
  ELSE IF blockStyle = "CENTER_ALIGN" THEN ToUint16(UDiv32(spareSpace, 2))
  ELSE 0

\* uint16_t xpos before the first word of the line.
initialXpos(blockStyle, spareSpace, lineWordCount, spaceW) ==
  IF blockStyle = "RIGHT_ALIGN"
  THEN ToUint16(spareSpace - (lineWordCount - 1) * spaceW)
  ELSE IF blockStyle = "CENTER_ALIGN"
  THEN ToUint16(UDiv32(spareSpace - (lineWordCount - 1) * spaceW, 2))
  ELSE 0

\* list.splice(dst.begin(), list, list.begin(), list.begin() + count): the
\* first count nodes move out of the live list.
spliceHeadKeepsSource(list, count) ==
  [moved |-> SubSeq(list, 1, count), rest |-> list]

spliceHead(list, count) ==
  [moved |-> SubSeq(list, 1, count), rest |-> SubSeq(list, count + 1, Len(list))]

\* extractLine: the TextBlock handed to processLine (with the cached widths,
\* the unstripped words and the tags of its nodes kept beside it) and the
\* lists left behind.
extractLine(breakIndex, pageWidth, spaceW, wordWidths, lineBreakIndices, liveWords, liveStyles, liveTags, blockStyle) ==
  LET lineBreak == lineBreakIndices[breakIndex + 1]
      lastBreakAt == IF breakIndex > 0 THEN lineBreakIndices[breakIndex] ELSE 0
      lineWordCount == lineBreak - lastBreakAt
      lineWordWidthSum == SumWidths(wordWidths, lastBreakAt, lineBreak)
      spareSpace == pageWidth - lineWordWidthSum
      isLastLine == breakIndex = Len(lineBreakIndices) - 1
      spacing == lineSpacing(blockStyle, isLastLine, lineWordCount, spareSpace, spaceW)
      xpos0 == initialXpos(blockStyle, spareSpace, lineWordCount, spaceW)
      lineWords == spliceHead(liveWords, lineWordCount)
      lineWordStyles == spliceHead(liveStyles, lineWordCount)
      lineTags == spliceHead(liveTags, lineWordCount)
  IN [block |-> [words |-> [k \in 1..Len(lineWords.moved) |->
                              IF containsSoftHyphen(lineWords.moved[k])
                              THEN stripSoftHyphensInPlace(lineWords.moved[k])
                              ELSE lineWords.moved[k]],
                 wordXpos |-> lineXPositions(wordWidths, lastBreakAt, lineBreak, xpos0, spacing),
                 wordStyles |-> lineWordStyles.moved,
                 style |-> blockStyle,
                 widths |-> SubSeq(wordWidths, lastBreakAt + 1, lineBreak),
                 rawWords |-> lineWords.moved,
                 tags |-> lineTags.moved,
                 isLastLine |-> isLastLine],
      words |-> lineWords.rest,
      wordStyles |-> lineWordStyles.rest,
      tags |-> lineTags.rest]

\* addWord appending whatever it is given.
addWordBufferKeepsEmpty(ws, st, word, fontStyle) ==
  [words |-> Append(ws, word), wordStyles |-> Append(st, fontStyle)]

\* addWord on the two live lists.
addWordBuffer(ws, st, word, fontStyle) ==
  IF word = <<>> THEN [words |-> ws, wordStyles |-> st]
  ELSE [words |-> Append(ws, word), wordStyles |-> Append(st, fontStyle)]

\* The extraction loop running over every line of the break list.
linesToExtractAll(lineBreakIndices, includeLastLine) == Len(lineBreakIndices)

\* lineCount of layoutAndExtractLines: the lines the extraction loop hands
\* to processLine.
linesToExtract(lineBreakIndices, includeLastLine) ==
  IF includeLastLine THEN Len(lineBreakIndices) ELSE Len(lineBreakIndices) - 1

\* ------------------------------------------------------------------------
\* Inputs.
\* ------------------------------------------------------------------------
BlockStyles == {"JUSTIFIED", "LEFT_ALIGN", "CENTER_ALIGN", "RIGHT_ALIGN"}
PageWidths == {0, 8, 12, 18, 21, 65535}
PagedWidths == {8, 21}
PagedStyles == {"JUSTIFIED", "RIGHT_ALIGN"}
SpaceWidths == {1}

\* "", "ab", a bold "ababab", and an italic "ab<shy>a<shy>b-ab" that carries
\* two soft hyphens and a literal hyphen.
WordInputs ==
  { [word |-> <<>>, fontStyle |-> "REGULAR"],
    [word |-> <<97, 98>>, fontStyle |-> "REGULAR"],
    [word |-> <<97, 98, 97, 98, 97, 98>>, fontStyle |-> "BOLD"],
    [word |-> <<97, 98, 194, 173, 97, 194, 173, 98, 45, 97, 98>>, fontStyle |-> "ITALIC"] }

LanguageTagInputs == { <<69, 78, 45, 117, 115>> }

\* ------------------------------------------------------------------------
\* State.
\* ------------------------------------------------------------------------
VARIABLES
  words, wordStyles,            \* ParsedText: the live lists
  style, extraParagraphSpacing, hyphenationEnabled,   \* ParsedText: constructor arguments
  cachedHyphenator,             \* Hyphenator::cachedHyphenator_ ("none" is nullptr)
  viewportWidth, spaceWidth,    \* the display and font of this run
  addBudget, layoutBudget,      \* how many addWord and layout calls this run explores
  pc,                           \* "idle", or "extract" inside layoutAndExtractLines
  includeLastLine, wordWidths, lineBreakIndices, lineIdx, lineCount, table,  \* locals of the call
  emitted,                      \* the TextBlocks passed to processLine, in order
  tags, log, fed, calls,        \* bookkeeping: node tags, split log, addWord and layout history
  loop,                         \* locals of the breaker loop being stepped through (SpecLoops)
  steps,                        \* steps the layout call in progress has taken, 0 outside a call
  query,                        \* the last call made to the hyphenation facade directly
  chapterSelection,             \* EpubReaderChapterSelectionActivity: its members and its book
  authActivity,                 \* KOReaderAuthActivity: its members and its three tasks
  homeActivity,                 \* HomeActivity: its members, its display task and the screen
  myLibrary,                    \* MyLibraryActivity: its members and the folder it shows
  settings                      \* CrossPointSettings: the fields in memory and the settings file

vars == <<words, wordStyles, style, extraParagraphSpacing, hyphenationEnabled, cachedHyphenator,
          viewportWidth, spaceWidth, addBudget, layoutBudget, pc, includeLastLine, wordWidths, lineBreakIndices, lineIdx,
          lineCount, table, emitted, tags, log, fed, calls, loop, steps,
          query, chapterSelection, authActivity, homeActivity, myLibrary, settings>>

\* The two activities, which the text layout and the hyphenation facade
\* never touch, and the text layout, which the activities never touch.
activities == <<chapterSelection, authActivity, homeActivity, myLibrary, settings>>
screens == <<homeActivity, myLibrary, settings>>
textLayout == <<words, wordStyles, style, extraParagraphSpacing, hyphenationEnabled,
                cachedHyphenator, viewportWidth, spaceWidth, addBudget, layoutBudget, pc,
                includeLastLine, wordWidths, lineBreakIndices, lineIdx, lineCount, table, emitted,
                tags, log, fed, calls, loop, steps, query>>

config == <<style, extraParagraphSpacing, hyphenationEnabled, viewportWidth, spaceWidth,
            addBudget, layoutBudget>>
locals == <<includeLastLine, wordWidths, lineBreakIndices, lineIdx, lineCount, table>>

NoTable == [dp |-> <<>>, ans |-> <<>>, stored |-> {}, saturated |-> FALSE, forced |-> {}]
NoLoop == [kind |-> "none"]
NoQuery == [op |-> "none"]

\* No activity on screen.
NoChapterSelection ==
  [open |-> FALSE, screenHeight |-> 0, tocItemsCount |-> 0, hasSyncOption |-> FALSE,
   selectorIndex |-> 0, updateRequired |-> FALSE, subActivity |-> FALSE]

NoAuthActivity == [open |-> FALSE]
NoHomeActivity == [open |-> FALSE]
NoMyLibrary == [open |-> FALSE]
NoSettings == [open |-> FALSE]

FreshScreens ==
  /\ homeActivity = NoHomeActivity
  /\ myLibrary = NoMyLibrary
  /\ settings = NoSettings

FreshText ==
  /\ words = <<>> /\ wordStyles = <<>>
  /\ pc = "idle"
  /\ includeLastLine = TRUE /\ wordWidths = <<>> /\ lineBreakIndices = <<>>
  /\ lineIdx = 0 /\ lineCount = 0 /\ table = NoTable
  /\ emitted = <<>>
  /\ tags = <<>> /\ log = <<>> /\ fed = <<>> /\ calls = <<>>
  /\ loop = NoLoop /\ steps = 0
  /\ query = NoQuery

Fresh ==
  /\ FreshText
  /\ chapterSelection = NoChapterSelection
  /\ authActivity = NoAuthActivity
  /\ FreshScreens

\* One paragraph laid out by a single call, on every display and language.
Init ==
  /\ Fresh
  /\ style \in BlockStyles
  /\ extraParagraphSpacing \in BOOLEAN
  /\ hyphenationEnabled \in BOOLEAN
  /\ cachedHyphenator = "none"
  /\ viewportWidth \in PageWidths
  /\ spaceWidth \in SpaceWidths
  /\ addBudget = MaxAdds
  /\ layoutBudget = 1

\* One paragraph laid out by several calls (pagination), on one display.
InitPaged ==
  /\ Fresh
  /\ style \in PagedStyles
  /\ extraParagraphSpacing \in BOOLEAN
  /\ hyphenationEnabled \in BOOLEAN
  /\ cachedHyphenator = "none"
  /\ viewportWidth \in PagedWidths
  /\ spaceWidth \in SpaceWidths
  /\ addBudget = MaxPagedAdds
  /\ layoutBudget = MaxLayouts

addWord(in) ==
  /\ pc = "idle"
  /\ UNCHANGED query
  /\ Len(fed) < addBudget
  /\ \E r \in {addWordBuffer(words, wordStyles, in.word, in.fontStyle)} :
       words' = r.words /\ wordStyles' = r.wordStyles
  /\ IF in.word = <<>>
     THEN UNCHANGED <<tags, fed>>
     ELSE /\ tags' = Append(tags, [id |-> Len(fed) + 1, ins |-> FALSE])
          /\ fed' = Append(fed, in)
  /\ UNCHANGED <<config, activities, cachedHyphenator, pc, locals, emitted, log, calls, loop, steps>>

AddWord == \E in \in WordInputs : addWord(in)

\* The publication's language hint, given when the book is opened: before
\* any of the paragraph's words is fed.
setPreferredLanguage(lang) ==
  /\ pc = "idle"
  /\ query' = [op |-> "setPreferredLanguage", lang |-> lang]
  /\ fed = <<>> /\ calls = <<>>
  /\ cachedHyphenator' = hyphenatorForLanguage(lang)
  /\ UNCHANGED <<words, wordStyles, config, activities, pc, locals, emitted, tags, log, fed, calls, loop,
                 steps>>

SetPreferredLanguage == \E lang \in LanguageTagInputs : setPreferredLanguage(lang)

\* layoutAndExtractLines up to the extraction loop.  The last call a run
\* explores is the one that flushes the paragraph.
layoutBegin(include) ==
  /\ pc = "idle"
  /\ UNCHANGED query
  /\ Len(calls) < layoutBudget
  /\ include \/ Len(calls) + 1 < layoutBudget
  /\ calls' = Append(calls, [includeLastLine |-> include, words |-> words,
                             wordStyles |-> wordStyles, emittedBefore |-> Len(emitted),
                             fedBefore |-> Len(fed),
                             hyphenator |-> cachedHyphenator])
  /\ IF words = <<>>
     THEN UNCHANGED <<words, wordStyles, tags, log, pc, locals, steps>>
     ELSE
       LET indented == applyParagraphIndent(words, style, extraParagraphSpacing)
           buf0 == [words |-> indented, wordStyles |-> wordStyles,
                    wordWidths |-> calculateWordWidths(indented, wordStyles),
                    tags |-> tags, log |-> log]
       IN \E r \in {IF hyphenationEnabled
                    THEN computeHyphenatedLineBreaks(buf0, viewportWidth, spaceWidth,
                                                     cachedHyphenator)
                    ELSE computeLineBreaks(buf0, viewportWidth, spaceWidth, cachedHyphenator)} :
          /\ words' = r.buf.words
          /\ wordStyles' = r.buf.wordStyles
          /\ tags' = r.buf.tags
          /\ log' = r.buf.log
          /\ wordWidths' = r.buf.wordWidths
          /\ lineBreakIndices' = r.lineBreakIndices
          /\ table' = IF hyphenationEnabled THEN NoTable ELSE r.table
          /\ includeLastLine' = include
          /\ lineCount' = linesToExtract(r.lineBreakIndices, include)
          /\ lineIdx' = 0
          /\ pc' = "extract"
          /\ steps' = 1
  /\ UNCHANGED <<config, activities, cachedHyphenator, emitted, fed, loop>>

LayoutBegin == \E include \in BOOLEAN : layoutBegin(include)

\* One iteration of the extraction loop: extractLine and the processLine callback.
ExtractLine ==
  /\ pc = "extract"
  /\ UNCHANGED query
  /\ lineIdx < lineCount
  /\ \E r \in {extractLine(lineIdx, viewportWidth, spaceWidth, wordWidths, lineBreakIndices,
                            words, wordStyles, tags, style)} :
        /\ emitted' = Append(emitted, r.block)
        /\ words' = r.words
        /\ wordStyles' = r.wordStyles
        /\ tags' = r.tags
  /\ lineIdx' = lineIdx + 1
  /\ steps' = steps + 1
  /\ UNCHANGED <<config, activities, cachedHyphenator, pc, includeLastLine, wordWidths, lineBreakIndices,
                 lineCount, table, log, fed, calls, loop>>

\* The extraction loop ends and layoutAndExtractLines returns.
LayoutEnd ==
  /\ pc = "extract"
  /\ UNCHANGED query
  /\ lineIdx >= lineCount
  /\ pc' = "idle"
  /\ wordWidths' = <<>> /\ lineBreakIndices' = <<>> /\ table' = NoTable
  /\ lineIdx' = 0 /\ lineCount' = 0
  /\ steps' = 0
  /\ UNCHANGED <<words, wordStyles, config, activities, cachedHyphenator, includeLastLine, emitted,
                 tags, log, fed, calls, loop>>

Next == SetPreferredLanguage \/ AddWord \/ LayoutBegin \/ ExtractLine \/ LayoutEnd

Spec == Init /\ [][Next]_vars

SpecPaged == InitPaged /\ [][Next]_vars

\* ------------------------------------------------------------------------
\* layoutAndExtractLines with the breaker loops taken one iteration at a
\* time.  A layout call is never interrupted, so each of its steps is taken
\* as long as it stays enabled.
\* ------------------------------------------------------------------------
Buffer == [words |-> words, wordStyles |-> wordStyles, wordWidths |-> wordWidths,
           tags |-> tags, log |-> log]

\* The call up to the first iteration of the breaker's first loop.
breakerBegin(include) ==
  /\ pc = "idle"
  /\ UNCHANGED query
  /\ Len(calls) < layoutBudget
  /\ calls' = Append(calls, [includeLastLine |-> include, words |-> words,
                             wordStyles |-> wordStyles, emittedBefore |-> Len(emitted),
                             fedBefore |-> Len(fed),
                             hyphenator |-> cachedHyphenator])
  /\ IF words = <<>>
     THEN UNCHANGED <<words, pc, locals, loop, steps>>
     ELSE \E indented \in {applyParagraphIndent(words, style, extraParagraphSpacing)} :
            /\ words' = indented
            /\ wordWidths' = calculateWordWidths(indented, wordStyles)
            /\ includeLastLine' = include
            /\ lineBreakIndices' = <<>>
            /\ lineIdx' = 0 /\ lineCount' = 0
            /\ table' = NoTable
            /\ steps' = 1
            /\ pc' = IF hyphenationEnabled THEN "greedy" ELSE "presplit"
            /\ loop' = IF hyphenationEnabled
                       THEN [kind |-> "greedy", currentIndex |-> 0, lineStart |-> 0,
                             lineWidth |-> 0]
                       ELSE [kind |-> "presplit", i |-> 0]
  /\ UNCHANGED <<wordStyles, tags, log, config, activities, cachedHyphenator, emitted, fed>>

BreakerBegin == \E include \in BOOLEAN : breakerBegin(include)

\* The breaker has returned its list: the number of lines to extract.
breakerReturns(breaks) ==
  /\ lineCount' = linesToExtract(breaks, includeLastLine)
  /\ pc' = "extract"
  /\ loop' = NoLoop

\* One test of the pre-pass; after the last word the table is filled.
PreSplitStep ==
  /\ pc = "presplit"
  /\ UNCHANGED query
  /\ IF loop.i >= Len(wordWidths)
     THEN /\ table' = dpTable(wordWidths, viewportWidth, spaceWidth)
          /\ pc' = "reconstruct"
          /\ loop' = [kind |-> "reconstruct", currentWordIndex |-> 0]
          /\ UNCHANGED <<words, wordStyles, wordWidths, tags, log>>
     ELSE \E r \in {preSplitIteration(Buffer, loop.i, viewportWidth, cachedHyphenator)} :
            /\ words' = r.buf.words
            /\ wordStyles' = r.buf.wordStyles
            /\ wordWidths' = r.buf.wordWidths
            /\ tags' = r.buf.tags
            /\ log' = r.buf.log
            /\ loop' = [kind |-> "presplit", i |-> r.i]
            /\ UNCHANGED <<pc, table>>
  /\ steps' = steps + 1
  /\ UNCHANGED <<config, activities, cachedHyphenator, includeLastLine, lineBreakIndices, lineIdx,
                 lineCount, emitted, fed, calls>>

\* One iteration of the reconstruction loop, or its exit.
ReconstructStep ==
  /\ pc = "reconstruct"
  /\ UNCHANGED query
  /\ IF loop.currentWordIndex >= Len(words)
     THEN /\ breakerReturns(lineBreakIndices)
          /\ UNCHANGED lineBreakIndices
     ELSE \E nextBreakIndex \in {reconstructIteration(table.ans, loop.currentWordIndex)} :
            /\ lineBreakIndices' = Append(lineBreakIndices, nextBreakIndex)
            /\ loop' = [kind |-> "reconstruct", currentWordIndex |-> nextBreakIndex]
            /\ UNCHANGED <<pc, lineCount>>
  /\ steps' = steps + 1
  /\ UNCHANGED <<words, wordStyles, wordWidths, tags, log, table, config, activities, cachedHyphenator,
                 includeLastLine, lineIdx, emitted, fed, calls>>

\* One iteration of the inner loop of the greedy breaker, with the push_back
\* that follows when the inner loop is left, or the exit of the outer loop.
GreedyStep ==
  /\ pc = "greedy"
  /\ UNCHANGED query
  /\ IF loop.currentIndex >= Len(wordWidths)
     THEN /\ breakerReturns(lineBreakIndices)
          /\ UNCHANGED <<words, wordStyles, wordWidths, tags, log, lineBreakIndices>>
     ELSE \E r \in {greedyIteration(Buffer, loop.currentIndex, loop.lineStart, loop.lineWidth,
                                    viewportWidth, spaceWidth, cachedHyphenator)} :
            /\ words' = r.buf.words
            /\ wordStyles' = r.buf.wordStyles
            /\ wordWidths' = r.buf.wordWidths
            /\ tags' = r.buf.tags
            /\ log' = r.buf.log
            /\ IF r.closed \/ r.currentIndex >= Len(r.buf.wordWidths)
               THEN /\ lineBreakIndices' = Append(lineBreakIndices, r.currentIndex)
                    /\ loop' = [kind |-> "greedy", currentIndex |-> r.currentIndex,
                                lineStart |-> r.currentIndex, lineWidth |-> 0]
               ELSE /\ loop' = [kind |-> "greedy", currentIndex |-> r.currentIndex,
                                lineStart |-> loop.lineStart, lineWidth |-> r.lineWidth]
                    /\ UNCHANGED lineBreakIndices
            /\ UNCHANGED <<pc, lineCount>>
  /\ steps' = steps + 1
  /\ UNCHANGED <<table, config, activities, cachedHyphenator, includeLastLine, lineIdx, emitted, fed, calls>>

LoopStyles == {"JUSTIFIED", "CENTER_ALIGN"}
LoopWidths == {0, 8, 21}

InitLoops ==
  /\ Fresh
  /\ cachedHyphenator = "none"
  /\ style \in LoopStyles
  /\ extraParagraphSpacing = FALSE
  /\ hyphenationEnabled \in BOOLEAN
  /\ viewportWidth \in LoopWidths
  /\ spaceWidth \in SpaceWidths
  /\ addBudget = MaxLoopAdds
  /\ layoutBudget = 1

NextLoops ==
  \/ SetPreferredLanguage \/ AddWord \/ BreakerBegin \/ PreSplitStep \/ ReconstructStep
  \/ GreedyStep \/ ExtractLine \/ LayoutEnd

\* The next step of the call in progress.  No step of a call waits for
\* anything, so the call is not suspended forever; every step of NextLoops
\* that changes steps inside a call is one of PreSplitStep, ReconstructStep,
\* GreedyStep, ExtractLine and LayoutEnd.
InCallStep == pc # "idle" /\ steps' \in {0, steps + 1}

SpecLoops == InitLoops /\ [][NextLoops]_vars /\ WF_steps(InCallStep)



\* ------------------------------------------------------------------------
\* The hyphenation facade called directly, as the reader does when it opens
\* a book and as the evaluation test does with the language hyphenators.
\* ------------------------------------------------------------------------
\* "", en, EN, En, en-US, en_GB, -en, _fr, fr, FR-ca, de, ru, xx, eng, e
FacadeTagInputs ==
  { <<>>, <<101, 110>>, <<69, 78>>, <<69, 110>>, <<101, 110, 45, 85, 83>>,
    <<101, 110, 95, 71, 66>>, <<45, 101, 110>>, <<95, 102, 114>>, <<102, 114>>,
    <<70, 82, 45, 99, 97>>, <<100, 101>>, <<114, 117>>, <<120, 120>>, <<101, 110, 103>>,
    <<101>> }

\* ab, abab, ababab, bbbbbb, bababa, (bbbbbb), ab-ab, bbb1bbb, the Cyrillic
\* letters a-be-a-be-a-be, "bbbbbb,", and ab<SHY>ab and (a<SHY>bab) with
\* one soft hyphen (U+00AD, bytes 194 173) each.
FacadeWordInputs ==
  { <<97, 98>>, <<97, 98, 97, 98>>, <<97, 98, 97, 98, 97, 98>>,
    <<98, 98, 98, 98, 98, 98>>, <<98, 97, 98, 97, 98, 97>>,
    <<40, 98, 98, 98, 98, 98, 98, 41>>, <<97, 98, 45, 97, 98>>,
    <<98, 98, 98, 49, 98, 98, 98>>,
    <<208, 176, 208, 177, 208, 176, 208, 177, 208, 176, 208, 177>>,
    <<34, 98, 98, 98, 98, 98, 98, 44>>,
    <<97, 98, 194, 173, 97, 98>>, <<40, 97, 194, 173, 98, 97, 98, 41>> }

\* The codepoints breakOffsets and the evaluation test work on.
trimmedCodepoints(word) == trimSurroundingPunctuationAndFootnote(collectCodepoints(word))

\* Hyphenator::breakOffsets called with a word.
BreakOffsets ==
  /\ pc = "idle"
  /\ \E word \in FacadeWordInputs, includeFallback \in BOOLEAN :
       query' = [op |-> "breakOffsets", word |-> word, includeFallback |-> includeFallback,
                 hyphenator |-> cachedHyphenator,
                 result |-> breakOffsets(word, includeFallback, cachedHyphenator)]
  /\ UNCHANGED <<words, wordStyles, config, activities, cachedHyphenator, pc, locals, emitted, tags, log,
                 fed, calls, loop, steps>>

\* hyphenateWordWithHyphenator of the evaluation test: breakIndexes of one
\* language hyphenator on the trimmed codepoints of a word.
HyphenateWordWithHyphenator ==
  /\ pc = "idle"
  /\ \E word \in FacadeWordInputs, hyphenator \in Languages :
       query' = [op |-> "breakIndexes", word |-> word, hyphenator |-> hyphenator,
                 result |-> breakIndexes(hyphenator, trimmedCodepoints(word))]
  /\ UNCHANGED <<words, wordStyles, config, activities, cachedHyphenator, pc, locals, emitted, tags, log,
                 fed, calls, loop, steps>>

SetPreferredLanguageAny == \E lang \in FacadeTagInputs : setPreferredLanguage(lang)

InitFacade ==
  /\ Fresh
  /\ cachedHyphenator = "none"
  /\ style = "JUSTIFIED"
  /\ extraParagraphSpacing = FALSE
  /\ hyphenationEnabled = TRUE
  /\ viewportWidth = 21
  /\ spaceWidth \in SpaceWidths
  /\ addBudget = 0
  /\ layoutBudget = 0

NextFacade == SetPreferredLanguageAny \/ BreakOffsets \/ HyphenateWordWithHyphenator

SpecFacade == InitFacade /\ [][NextFacade]_vars


\* ------------------------------------------------------------------------
\* Properties.
\* ------------------------------------------------------------------------
RECURSIVE Flatten(_)
Flatten(seqs) == IF seqs = <<>> THEN <<>> ELSE Head(seqs) \o Flatten(Tail(seqs))

EmittedWords == Flatten([b \in 1..Len(emitted) |-> emitted[b].words])
EmittedTags == Flatten([b \in 1..Len(emitted) |-> emitted[b].tags])
RealizedSplits == Cardinality({k \in 1..Len(log) : log[k].split})

RECURSIVE DropIndents(_)
DropIndents(word) ==
  IF MatchesAt(word, INDENT_UTF8, 0) THEN DropIndents(SubstrFrom(word, Len(INDENT_UTF8))) ELSE word

\* The bytes of the original word an emitted piece stands for: without the
\* indent glyph in front and without the hyphen a split appended.
PieceText(word, tag) ==
  LET body == DropIndents(word)
  IN IF tag.ins THEN SubSeq(body, 1, Len(body) - 1) ELSE body

PiecesOf(id) ==
  Flatten([k \in 1..Len(EmittedWords) |->
             IF EmittedTags[k].id = id THEN PieceText(EmittedWords[k], EmittedTags[k]) ELSE <<>>])

LastCallDone(include) ==
  /\ pc = "idle"
  /\ calls # <<>>
  /\ calls[Len(calls)].includeLastLine = include
  /\ calls[Len(calls)].fedBefore = Len(fed)

\* C1: once a layout call with includeLastLine = true has returned, the live
\* buffer is empty, the emitted words number the non-empty words added plus
\* the realized splits, they come out in the order they were added (the
\* pieces of a split word adjacent and in order), and the pieces of each
\* added word spell that word: nothing is dropped or emitted twice.
WordConservation ==
  LastCallDone(TRUE) =>
    /\ words = <<>> /\ wordStyles = <<>>
    /\ Len(EmittedWords) = Len(fed) + RealizedSplits
    /\ \A k \in 1..(Len(EmittedTags) - 1) : EmittedTags[k].id <= EmittedTags[k + 1].id
    /\ \A id \in 1..Len(fed) : PiecesOf(id) = stripSoftHyphensInPlace(fed[id].word)

WordConservationWitness ==
  /\ LastCallDone(TRUE)
  /\ Len(calls) = 2 /\ ~calls[1].includeLastLine
  /\ calls[2].emittedBefore >= 1
  /\ Len(emitted) > calls[2].emittedBefore
  /\ Len(fed) = 2
  /\ RealizedSplits >= 2


\* The width the renderer gives the words of a block, with one base space
\* between neighbours.
RECURSIVE RenderedWidthSum(_, _)
RenderedWidthSum(block, k) ==
  IF k > Len(block.words) THEN 0
  ELSE measureWordWidth(block.words[k], block.wordStyles[k], FALSE) + RenderedWidthSum(block, k + 1)

ContentWidth(block) == RenderedWidthSum(block, 1) + (Len(block.words) - 1) * spaceWidth

\* No break candidate of the word (fallback candidates included) leaves a
\* prefix that fits the width.
NoFittingBreak(word, fontStyle, hyphenator, width) ==
  LET infos == breakOffsets(word, TRUE, hyphenator)
  IN \A k \in 1..Len(infos) :
       \/ infos[k].byteOffset = 0
       \/ infos[k].byteOffset >= Len(word)
       \/ measureWordWidth(Substr(word, 0, infos[k].byteOffset), fontStyle,
                           infos[k].requiresInsertedHyphen) > width

OversizedUnsplittable(block) ==
  /\ Len(block.words) = 1
  /\ ContentWidth(block) > viewportWidth
  /\ NoFittingBreak(block.rawWords[1], block.wordStyles[1], cachedHyphenator, viewportWidth)

JustEmitted == pc = "extract" /\ lineIdx > 0

\* C2: every line that is not the last line of its layout call fits the
\* viewport (rendered word widths plus one base space per gap) when it is
\* handed to processLine, unless it is a single word wider than the
\* viewport of which no break candidate leaves a fitting prefix.
FitBound ==
  JustEmitted =>
    (~emitted[Len(emitted)].isLastLine =>
       \/ ContentWidth(emitted[Len(emitted)]) <= viewportWidth
       \/ OversizedUnsplittable(emitted[Len(emitted)]))

FitBoundWitness ==
  /\ pc = "idle" /\ Len(emitted) >= 3
  /\ \E b \in 1..Len(emitted) :
       /\ ~emitted[b].isLastLine
       /\ Len(emitted[b].words) >= 2
       /\ ContentWidth(emitted[b]) = viewportWidth
  /\ \E b \in 1..Len(emitted) :
       /\ ~emitted[b].isLastLine
       /\ OversizedUnsplittable(emitted[b])
       /\ breakOffsets(emitted[b].rawWords[1], TRUE, cachedHyphenator) # <<>>


\* A whole layoutAndExtractLines call with includeLastLine = true on a
\* buffer, as the sequence of TextBlocks it passes to processLine.
RECURSIVE extractAll(_, _, _, _, _, _, _)
extractAll(i, wordWidthsIn, breaks, liveWords, liveStyles, liveTags, acc) ==
  IF i >= Len(breaks) THEN acc
  ELSE LET r == extractLine(i, viewportWidth, spaceWidth, wordWidthsIn, breaks,
                            liveWords, liveStyles, liveTags, style)
       IN extractAll(i + 1, wordWidthsIn, breaks, r.words, r.wordStyles, r.tags,
                     Append(acc, r.block))

SingleCallLines(ws, st, hyphenator) ==
  IF ws = <<>> THEN <<>>
  ELSE
    LET indented == applyParagraphIndent(ws, style, extraParagraphSpacing)
        buf0 == [words |-> indented, wordStyles |-> st,
                 wordWidths |-> calculateWordWidths(indented, st),
                 tags |-> [k \in 1..Len(ws) |-> [id |-> k, ins |-> FALSE]], log |-> <<>>]
        r == IF hyphenationEnabled
             THEN computeHyphenatedLineBreaks(buf0, viewportWidth, spaceWidth, hyphenator)
             ELSE computeLineBreaks(buf0, viewportWidth, spaceWidth, hyphenator)
    IN extractAll(0, r.buf.wordWidths, r.lineBreakIndices, r.buf.words, r.buf.wordStyles,
                  r.buf.tags, <<>>)

Visible(block) ==
  [words |-> block.words, wordXpos |-> block.wordXpos, wordStyles |-> block.wordStyles,
   style |-> block.style]

\* A call with includeLastLine = false on a non-empty buffer, then, with no
\* word added in between, a call with includeLastLine = true, both returned.
PaginatedPair ==
  /\ pc = "idle"
  /\ Len(calls) = 2
  /\ ~calls[1].includeLastLine /\ calls[2].includeLastLine
  /\ calls[1].words # <<>>
  /\ calls[1].fedBefore = calls[2].fedBefore /\ calls[2].fedBefore = Len(fed)

\* C3: the last line of a paginated pair of calls is the TextBlock (words,
\* x-offsets, styles) that one call with includeLastLine = true on the same
\* buffer emits last.
RoundTripPagination ==
  PaginatedPair =>
    LET single == SingleCallLines(calls[1].words, calls[1].wordStyles, calls[1].hyphenator)
    IN /\ Len(emitted) > calls[2].emittedBefore
       /\ Visible(emitted[Len(emitted)]) = Visible(single[Len(single)])

IndentApplies == ~extraParagraphSpacing /\ style \in {"JUSTIFIED", "LEFT_ALIGN"}

RoundTripPaginationNoIndent == IndentApplies \/ RoundTripPagination


RenderedWidth(block, k) == measureWordWidth(block.words[k], block.wordStyles[k], FALSE)
Gap(block, k) == block.wordXpos[k + 1] - (block.wordXpos[k] + RenderedWidth(block, k))
RightEdge(block) == block.wordXpos[Len(block.words)] + RenderedWidth(block, Len(block.words))
Leftover(block) == viewportWidth - RenderedWidthSum(block, 1)

JustifiedSpread(block) ==
  block.style = "JUSTIFIED" /\ ~block.isLastLine /\ Len(block.words) >= 2

BaseSpacingElsewhere ==
  \A b \in 1..Len(emitted) :
    ~JustifiedSpread(emitted[b]) =>
      \A k \in 1..(Len(emitted[b].words) - 1) :
        emitted[b].wordXpos[k + 1]
          = emitted[b].wordXpos[k] + RenderedWidth(emitted[b], k) + spaceWidth

BaseSpacingWitness ==
  /\ \E b \in 1..Len(emitted) :
       /\ emitted[b].style = "JUSTIFIED" /\ emitted[b].isLastLine
       /\ Len(emitted[b].words) >= 2
       /\ Leftover(emitted[b]) > (Len(emitted[b].words) - 1) * spaceWidth
  /\ \E b \in 1..Len(emitted) : JustifiedSpread(emitted[b])

BaseSpacingWitnessRight ==
  \E b \in 1..Len(emitted) :
    /\ emitted[b].style = "RIGHT_ALIGN" /\ ~emitted[b].isLastLine
    /\ Len(emitted[b].words) >= 2 /\ emitted[b].wordXpos[1] > 0

\* C6: when a breaker has returned for a non-empty buffer, its list of
\* exclusive end indices is non-empty and strictly increasing, starts at 1
\* or more and ends at the word count after all splits.
BreakListContract ==
  pc = "extract" =>
    /\ lineBreakIndices # <<>>
    /\ lineBreakIndices[1] >= 1
    /\ \A k \in 1..(Len(lineBreakIndices) - 1) : lineBreakIndices[k] < lineBreakIndices[k + 1]
    /\ lineBreakIndices[Len(lineBreakIndices)] = Len(wordWidths)
    /\ lineIdx = 0 => Len(words) = Len(wordWidths)

BreakListWitness ==
  /\ pc = "extract" /\ lineIdx = 0
  /\ ~hyphenationEnabled
  /\ Len(lineBreakIndices) >= 3
  /\ Len(words) > Len(fed)
  /\ \E k \in 1..(Len(lineBreakIndices) - 1) : lineBreakIndices[k + 1] >= lineBreakIndices[k] + 2

BreakListWitnessGreedy ==
  /\ pc = "extract" /\ lineIdx = 0
  /\ hyphenationEnabled
  /\ Len(lineBreakIndices) >= 3
  /\ Len(words) > Len(fed)
  /\ lineBreakIndices[1] >= 2


\* The explicit markers of a word, read off its trimmed codepoints: one
\* entry per hyphen or soft hyphen standing between two letters, at the
\* byte offset of the letter after it.
MarkerIndexes(cps) ==
  {i \in 2..(Len(cps) - 1) :
     /\ cps[i].value \in {45, 173}
     /\ isAlphabetic(cps[i - 1].value) /\ isAlphabetic(cps[i + 1].value)}

ExplicitMarkers(word) ==
  LET cps == trimSurroundingPunctuationAndFootnote(collectCodepoints(word))
      at == Ascending(MarkerIndexes(cps))
  IN [k \in 1..Len(at) |->
        [byteOffset |-> cps[at[k] + 1].byteOffset,
         requiresInsertedHyphen |-> cps[at[k]].value = 173]]

Range(seq) == {seq[k] : k \in 1..Len(seq)}

\* C7: for a word with an explicit marker between two letters, breakOffsets
\* returns exactly the marker breaks, in order, with the inserted-hyphen
\* flag set for soft hyphens only, whatever the language and whether or not
\* fallback breaks are asked for; and a split of such a word is made at one
\* of its markers.  Both are checked when a breaker has just returned, on
\* every word of its buffer and every split it made.
ExplicitMarkerPrecedence ==
  /\ \A w \in (IF pc = "extract" /\ lineIdx = 0 THEN Range(words) ELSE {}) :
       ExplicitMarkers(w) # <<>> =>
         \A includeFallback \in BOOLEAN, h \in {"none"} \cup Languages :
           breakOffsets(w, includeFallback, h) = ExplicitMarkers(w)
  /\ \A e \in (IF pc = "extract" /\ lineIdx = 0 THEN Range(log) ELSE {}) :
       (e.split /\ ExplicitMarkers(e.word) # <<>>) =>
         \E m \in Range(ExplicitMarkers(e.word)) :
           /\ m.byteOffset = e.chosenOffset
           /\ m.requiresInsertedHyphen = e.chosenNeedsHyphen

ExplicitMarkerWitness ==
  /\ \E e \in Range(log) :
       /\ e.split /\ e.allowFallbackBreaks /\ e.hyphenator = "en"
       /\ Len(ExplicitMarkers(e.word)) >= 3
       /\ ~e.chosenNeedsHyphen
  /\ \E e \in Range(log) :
       e.split /\ ExplicitMarkers(e.word) # <<>> /\ e.chosenNeedsHyphen

HasSoftHyphenBytes(word) ==
  \E i \in 1..(Len(word) - 1) : word[i] = 194 /\ word[i + 1] = 173

\* C8: no word of an emitted line contains the two bytes C2 AD.
NoSoftHyphenEmitted ==
  \A b \in 1..Len(emitted) : \A k \in 1..Len(emitted[b].words) :
    ~HasSoftHyphenBytes(emitted[b].words[k])

NoSoftHyphenWitness ==
  /\ \E b \in 1..Len(emitted) : \E k \in 1..Len(emitted[b].words) :
       /\ Len(emitted[b].rawWords[k]) = Len(emitted[b].words[k]) + 4
       /\ emitted[b].words[k] # <<>>
  /\ \E b \in 1..Len(emitted) : \E k \in 1..Len(emitted[b].words) :
       /\ emitted[b].tags[k].ins
       /\ HasSoftHyphenBytes(emitted[b].rawWords[k])

\* Break lists over n words, and their cost by the definition of the
\* breaker: the squared slack of every line but the last.
BreakLists(n) == {Ascending(C \cup {n}) : C \in SUBSET (1..(n - 1))}

LineLength(widths, from, to) == SumWidths(widths, from, to) + (to - from - 1) * spaceWidth

LineStart(breaks, k) == IF k = 1 THEN 0 ELSE breaks[k - 1]

EveryLineFits(widths, breaks) ==
  \A k \in 1..Len(breaks) : LineLength(widths, LineStart(breaks, k), breaks[k]) <= viewportWidth

RECURSIVE TotalCost(_, _, _)
TotalCost(widths, breaks, k) ==
  IF k >= Len(breaks) THEN 0
  ELSE LET slack == viewportWidth - LineLength(widths, LineStart(breaks, k), breaks[k])
       IN slack * slack + TotalCost(widths, breaks, k + 1)

DpRan ==
  /\ pc = "extract" /\ lineIdx = 0 /\ ~hyphenationEnabled
  /\ \A k \in 1..Len(wordWidths) : wordWidths[k] <= viewportWidth
  /\ ~table.saturated

\* C9: with hyphenation off, every word fitting the viewport alone and no
\* cost saturated, the break list of computeLineBreaks costs no more than
\* any break list whose lines all fit.
DpOptimal ==
  DpRan =>
    /\ EveryLineFits(wordWidths, lineBreakIndices)
    /\ \A B \in BreakLists(Len(wordWidths)) :
         EveryLineFits(wordWidths, B) =>
           TotalCost(wordWidths, lineBreakIndices, 1) <= TotalCost(wordWidths, B, 1)

DpOptimalWitness ==
  /\ DpRan
  /\ Len(wordWidths) >= 3 /\ Len(lineBreakIndices) >= 2
  /\ TotalCost(wordWidths, lineBreakIndices, 1) > 0
  /\ \E B \in BreakLists(Len(wordWidths)) :
       /\ EveryLineFits(wordWidths, B)
       /\ Len(B) = Len(lineBreakIndices)
       /\ TotalCost(wordWidths, B, 1) > TotalCost(wordWidths, lineBreakIndices, 1)

\* C10: every value the DP breaker stores in its cost table lies between 0
\* and MAX_COST.
DpCostsInRange ==
  (pc = "extract" /\ ~hyphenationEnabled) =>
    /\ \A c \in table.stored : 0 <= c /\ c <= MAX_COST
    /\ \A k \in 1..Len(table.dp) : 0 <= table.dp[k] /\ table.dp[k] <= MAX_COST

DpCostsWitness ==
  /\ pc = "extract" /\ ~hyphenationEnabled
  /\ table.saturated
  /\ Len(table.dp) >= 3
  /\ \E k \in 1..(Len(table.dp) - 1) : table.ans[k] > k - 1

\* ------------------------------------------------------------------------
\* Termination of a layout call.
\* ------------------------------------------------------------------------
\* The bytes of the words from index k (0-based) to the end of the buffer.
RECURSIVE BytesFrom(_, _)
BytesFrom(ws, k) == IF k >= Len(ws) THEN 0 ELSE Len(ws[k + 1]) + BytesFrom(ws, k + 1)

\* What the pre-pass still has to do: a word that overflows may be split
\* once per byte, any other word is passed once.
RECURSIVE PreSplitWork(_, _, _, _)
PreSplitWork(ws, widths, pageWidth, k) ==
  IF k >= Len(ws) THEN 0
  ELSE (IF widths[k + 1] > pageWidth THEN 2 * Len(ws[k + 1]) + 1 ELSE 1)
       + PreSplitWork(ws, widths, pageWidth, k + 1)

\* The measure each loop decreases: the work left for the pre-pass, the bytes
\* not yet placed on a closed or open line for the greedy breaker, the words
\* not yet covered by a break for the reconstruction.
LoopVariant ==
  CASE loop.kind = "presplit" -> PreSplitWork(words, wordWidths, viewportWidth, loop.i)
    [] loop.kind = "greedy" ->
         2 * BytesFrom(words, loop.currentIndex)
         + (IF loop.currentIndex > loop.lineStart THEN 1 ELSE 0)
    [] loop.kind = "reconstruct" -> Len(words) - loop.currentWordIndex
    [] OTHER -> 0

\* The step-by-step breakers compute what computeLineBreaks and
\* computeHyphenatedLineBreaks compute.
StepwiseAgrees ==
  (pc = "extract" /\ lineIdx = 0 /\ calls # <<>>) =>
    LET c == calls[Len(calls)]
        indented == applyParagraphIndent(c.words, style, extraParagraphSpacing)
        buf0 == [words |-> indented, wordStyles |-> c.wordStyles,
                 wordWidths |-> calculateWordWidths(indented, c.wordStyles),
                 tags |-> [k \in 1..Len(c.words) |-> tags[1]], log |-> <<>>]
        r == IF hyphenationEnabled
             THEN computeHyphenatedLineBreaks(buf0, viewportWidth, spaceWidth, c.hyphenator)
             ELSE computeLineBreaks(buf0, viewportWidth, spaceWidth, c.hyphenator)
    IN /\ r.lineBreakIndices = lineBreakIndices
       /\ r.buf.words = words
       /\ r.buf.wordWidths = wordWidths

\* C11: every layout call terminates, for every viewport width and with
\* hyphenation on or off: each iteration of the pre-split loop, of the greedy
\* line loop and of the reconstruction loop strictly decreases a non-negative
\* measure, and a call that has begun always returns.
LayoutTerminates ==
  /\ [][(loop.kind # "none" /\ loop'.kind = loop.kind)
          => (LoopVariant' < LoopVariant /\ LoopVariant' >= 0)]_vars
  /\ (pc # "idle") ~> (pc = "idle")

\* A call on a viewport of width 0 with hyphenation enabled has returned
\* after emitting one line per word.
LayoutTerminatesWitness ==
  /\ pc = "idle" /\ calls # <<>>
  /\ viewportWidth = 0 /\ hyphenationEnabled
  /\ Len(fed) >= 2 /\ Len(emitted) >= 2

\* The pre-pass split a word twice and the call has returned.
LayoutTerminatesWitnessPreSplit ==
  /\ pc = "idle" /\ calls # <<>>
  /\ ~hyphenationEnabled
  /\ Len(log) >= 2 /\ log[1].split /\ log[2].split
  /\ emitted # <<>>

\* ------------------------------------------------------------------------
\* Overflow of a word that cannot be split.
\* ------------------------------------------------------------------------
\* Word k of the buffer is wider than the viewport and no break candidate
\* of it leaves a prefix that fits the viewport.
Unsplittable(k) ==
  /\ wordWidths[k] > viewportWidth
  /\ NoFittingBreak(words[k], wordStyles[k], cachedHyphenator, viewportWidth)

\* Line k of the break list holds an unsplittable word.
OverflowLine(k) ==
  \E w \in (LineStart(lineBreakIndices, k) + 1)..lineBreakIndices[k] : Unsplittable(w)

\* The word as the layout call sees it: the paragraph's first word behind
\* the indent glyph.
AsLaidOut(id) ==
  IF id = 1 THEN applyParagraphIndent(<<fed[1].word>>, style, extraParagraphSpacing)[1]
  ELSE fed[id].word

\* The added word is wider than the viewport and cannot be split to fit.
FedUnsplittable(id) ==
  /\ measureWordWidth(AsLaidOut(id), fed[id].fontStyle, FALSE) > viewportWidth
  /\ NoFittingBreak(AsLaidOut(id), fed[id].fontStyle, cachedHyphenator, viewportWidth)

\* Some emitted line consists of the whole added word and nothing else.
EmittedAlone(id) ==
  \E b \in 1..Len(emitted) :
    /\ Len(emitted[b].words) = 1
    /\ emitted[b].tags[1].id = id
    /\ emitted[b].rawWords[1] = AsLaidOut(id)
    /\ emitted[b].words[1] = stripSoftHyphensInPlace(AsLaidOut(id))

\* C12: in both breakers a word wider than the viewport that cannot be
\* split to fit is the sole word of its line, every other line of the call
\* fits the viewport, the line handed to processLine holds exactly that
\* word, and once a call with includeLastLine = true has returned every such
\* added word has been emitted whole and alone.
GracefulOverflow ==
  /\ (pc = "extract" /\ lineIdx = 0) =>
       \A k \in 1..Len(lineBreakIndices) :
         IF OverflowLine(k)
         THEN lineBreakIndices[k] - LineStart(lineBreakIndices, k) = 1
         ELSE LineLength(wordWidths, LineStart(lineBreakIndices, k), lineBreakIndices[k])
                <= viewportWidth
  /\ LastCallDone(TRUE) =>
       \A id \in 1..Len(fed) : FedUnsplittable(id) => EmittedAlone(id)

\* An unsplittable word between two lines that fit, laid out by the DP
\* breaker, on a viewport that is not degenerate.
GracefulOverflowWitness ==
  /\ pc = "extract" /\ lineIdx = 0
  /\ ~hyphenationEnabled
  /\ viewportWidth > 0
  /\ Len(lineBreakIndices) = 3
  /\ OverflowLine(2) /\ ~OverflowLine(1) /\ ~OverflowLine(3)

\* The same in the greedy breaker, after the call has returned.
GracefulOverflowWitnessGreedy ==
  /\ LastCallDone(TRUE)
  /\ hyphenationEnabled
  /\ viewportWidth > 0
  /\ Len(fed) = 3 /\ Len(emitted) = 3
  /\ FedUnsplittable(2) /\ EmittedAlone(2) /\ ~FedUnsplittable(1) /\ ~FedUnsplittable(3)

\* ------------------------------------------------------------------------
\* The paragraph indent.
\* ------------------------------------------------------------------------
\* The indent glyphs in front of a word.
RECURSIVE IndentCount(_)
IndentCount(word) ==
  IF MatchesAt(word, INDENT_UTF8, 0)
  THEN 1 + IndentCount(SubstrFrom(word, Len(INDENT_UTF8)))
  ELSE 0

\* The words of the paragraph in order: those handed to processLine so far,
\* then those still in the buffer.
ParagraphPieces == Flatten([b \in 1..Len(emitted) |-> emitted[b].rawWords]) \o words

\* C13: over any sequence of addWord and layout calls on one paragraph the
\* indent glyph stands at most once before the paragraph's first word, and
\* only when extra paragraph spacing is off and the alignment is Justified
\* or LeftAlign; no later word carries an indent glyph.
OneTimeIndent ==
  \A k \in 1..Len(ParagraphPieces) :
    IndentCount(ParagraphPieces[k]) <= (IF k = 1 /\ IndentApplies THEN 1 ELSE 0)

\* The paragraph's first word carries at most one indent glyph.
OneTimeIndentFirstWord ==
  ParagraphPieces # <<>> => IndentCount(ParagraphPieces[1]) <= 1

\* No word after the paragraph's first carries an indent glyph.
OneTimeIndentLaterWords ==
  \A k \in 2..Len(ParagraphPieces) : IndentCount(ParagraphPieces[k]) = 0

\* Within a single layout call the indent is applied as stated.
OneTimeIndentSingleCall == Len(calls) <= 1 => OneTimeIndent

\* ------------------------------------------------------------------------
\* The greedy breaker and fallback breaks.
\* ------------------------------------------------------------------------
\* The greedy inner loop is about to look at a word of the buffer.
AtGreedyWord == pc = "greedy" /\ loop.currentIndex < Len(wordWidths)

GreedySpacing == IF loop.currentIndex = loop.lineStart THEN 0 ELSE spaceWidth
GreedyAvailable == viewportWidth - loop.lineWidth - GreedySpacing

\* The word the inner loop looks at does not fit the rest of the line.
GreedyOverflow ==
  /\ AtGreedyWord
  /\ loop.lineWidth + GreedySpacing + wordWidths[loop.currentIndex + 1] > viewportWidth

\* The byte offsets of the explicit-marker and language breaks of a word.
LinguisticOffsets(word, hyphenator) ==
  {breakOffsets(word, FALSE, hyphenator)[k].byteOffset :
     k \in 1..Len(breakOffsets(word, FALSE, hyphenator))}

\* No explicit-marker or language break of the word leaves a prefix that
\* fits the width.
NoFittingLinguisticBreak(word, fontStyle, hyphenator, width) ==
  LET infos == breakOffsets(word, FALSE, hyphenator)
  IN \A k \in 1..Len(infos) :
       \/ infos[k].byteOffset = 0
       \/ infos[k].byteOffset >= Len(word)
       \/ measureWordWidth(Substr(word, 0, infos[k].byteOffset), fontStyle,
                           infos[k].requiresInsertedHyphen) > width

\* This step tried to split the word it looked at.
Attempted == Len(log') = Len(log) + 1

\* C14: when the word the greedy breaker looks at overflows the line, the
\* split attempt allows fallback breaks exactly when the word is the first of
\* its line; a word that is not the first is split only at an offset of an
\* explicit-marker or language break, and otherwise stays whole in the buffer
\* while the line is closed in front of it.
GreedyFallbackGating ==
  [][GreedyOverflow =>
       /\ Attempted => (log'[Len(log')].allowFallbackBreaks <=> loop.currentIndex = loop.lineStart)
       /\ loop.currentIndex > loop.lineStart =>
            IF words' # words
            THEN /\ Attempted /\ log'[Len(log')].split
                 /\ log'[Len(log')].chosenOffset
                      \in LinguisticOffsets(words[loop.currentIndex + 1], cachedHyphenator)
            ELSE /\ NoFittingLinguisticBreak(words[loop.currentIndex + 1],
                                             wordStyles[loop.currentIndex + 1],
                                             cachedHyphenator, GreedyAvailable)
                 /\ wordWidths' = wordWidths
                 /\ loop'.currentIndex = loop.currentIndex
                 /\ loop'.lineStart = loop.currentIndex
                 /\ lineBreakIndices' = Append(lineBreakIndices, loop.currentIndex)
    ]_vars

\* A word that is not the first of its line was refused a split although a
\* fallback break of it would have fitted the rest of the line, and the line
\* was closed in front of it.
GreedyFallbackGatingWitness ==
  /\ pc = "greedy" /\ log # <<>>
  /\ ~log[Len(log)].allowFallbackBreaks /\ ~log[Len(log)].split
  /\ ~NoFittingBreak(log[Len(log)].word, log[Len(log)].fontStyle, cachedHyphenator,
                     log[Len(log)].availableWidth)
  /\ loop.currentIndex = log[Len(log)].wordIndex
  /\ loop.lineStart = loop.currentIndex
  /\ lineBreakIndices # <<>> /\ lineBreakIndices[Len(lineBreakIndices)] = loop.currentIndex

\* A word that is not the first of its line was split at a linguistic break.
GreedyFallbackGatingWitnessSplit ==
  /\ pc = "greedy" /\ log # <<>>
  /\ ~log[Len(log)].allowFallbackBreaks /\ log[Len(log)].split

\* ------------------------------------------------------------------------
\* The choice hyphenateWordAtIndex makes.
\* ------------------------------------------------------------------------
\* The candidates breakOffsets returned to the logged call.
CandidatesOf(e) == breakOffsets(e.word, e.allowFallbackBreaks, e.hyphenator)

\* The width of the prefix a candidate leaves, with its hyphen glyph when
\* the candidate requires an inserted hyphen.
PrefixWidth(e, c) ==
  measureWordWidth(Substr(e.word, 0, c.byteOffset), e.fontStyle, c.requiresInsertedHyphen)

\* The candidates whose prefix fits the available width of the call.
FittingCandidates(e) ==
  {k \in 1..Len(CandidatesOf(e)) : PrefixWidth(e, CandidatesOf(e)[k]) <= e.availableWidth}

\* The call chose a returned candidate that fits and none that fits is wider.
BestFit(e) ==
  \E k \in FittingCandidates(e) :
    /\ CandidatesOf(e)[k].byteOffset = e.chosenOffset
    /\ CandidatesOf(e)[k].requiresInsertedHyphen = e.chosenNeedsHyphen
    /\ \A j \in FittingCandidates(e) :
         PrefixWidth(e, CandidatesOf(e)[j]) <= PrefixWidth(e, CandidatesOf(e)[k])

\* C15: a call of hyphenateWordAtIndex that splits chose a candidate of
\* breakOffsets whose prefix width (hyphen glyph included when required) is
\* at most the available width and the largest among the candidates that
\* fit; a call that finds no fitting candidate returns false and leaves
\* words, styles and cached widths as they were.
BestFitSplit ==
  [][Attempted =>
       IF log'[Len(log')].split
       THEN BestFit(log'[Len(log')])
       ELSE /\ FittingCandidates(log'[Len(log')]) = {}
            /\ words' = words /\ wordStyles' = wordStyles /\ wordWidths' = wordWidths
    ]_vars

\* A split where two or more candidates fitted and the one chosen is wider
\* than another that fitted.
BestFitSplitWitness ==
  /\ log # <<>> /\ log[Len(log)].split
  /\ \E j \in FittingCandidates(log[Len(log)]) :
       /\ CandidatesOf(log[Len(log)])[j].byteOffset # log[Len(log)].chosenOffset
       /\ PrefixWidth(log[Len(log)], CandidatesOf(log[Len(log)])[j])
            < measureWordWidth(Substr(log[Len(log)].word, 0, log[Len(log)].chosenOffset),
                               log[Len(log)].fontStyle, log[Len(log)].chosenNeedsHyphen)

\* A call that had candidates, none of which fitted, and returned false.
BestFitSplitWitnessNone ==
  /\ log # <<>> /\ ~log[Len(log)].split
  /\ CandidatesOf(log[Len(log)]) # <<>>

\* ------------------------------------------------------------------------
\* What a split does to the buffer.
\* ------------------------------------------------------------------------
\* list' is list with x in place of element k + 1 and y inserted behind it.
ReplacedByTwo(before, after, k, x, y) ==
  /\ Len(after) = Len(before) + 1
  /\ after[k + 1] = x /\ after[k + 2] = y
  /\ \A j \in 1..k : after[j] = before[j]
  /\ \A j \in (k + 2)..Len(before) : after[j + 1] = before[j]

\* The step split the word at index e.wordIndex at byte offset e.chosenOffset.
SplitAsLogged(e) ==
  /\ e.chosenOffset > 0 /\ e.chosenOffset < Len(e.word)
  /\ words[e.wordIndex + 1] = e.word
  /\ ReplacedByTwo(words, words', e.wordIndex,
                   SubSeq(e.word, 1, e.chosenOffset)
                     \o (IF e.chosenNeedsHyphen THEN <<45>> ELSE <<>>),
                   SubSeq(e.word, e.chosenOffset + 1, Len(e.word)))
  /\ ReplacedByTwo(wordStyles, wordStyles', e.wordIndex,
                   wordStyles[e.wordIndex + 1], wordStyles[e.wordIndex + 1])
  /\ ReplacedByTwo(wordWidths, wordWidths', e.wordIndex,
                   measureWordWidth(words'[e.wordIndex + 1], wordStyles'[e.wordIndex + 1], FALSE),
                   measureWordWidth(words'[e.wordIndex + 2], wordStyles'[e.wordIndex + 2], FALSE))

\* C16: a successful split of the word at index k at byte offset o leaves at
\* k the original bytes [0,o) followed by '-' iff the candidate requires an
\* inserted hyphen and at k+1 the original bytes [o,end) with the style of
\* the original; both pieces are non-empty, every other word, style and
\* cached width is unchanged, the three lists grow by one, and the cached
\* widths at k and k+1 are the measured widths of the two pieces.
SplitMutation ==
  [][(Attempted /\ log'[Len(log')].split) => SplitAsLogged(log'[Len(log')])]_vars

\* A word was split at a hard hyphen, without an inserted hyphen, at an
\* index other than the first, and its remainder still holds a marker.
SplitMutationWitness ==
  /\ log # <<>> /\ log[Len(log)].split
  /\ ~log[Len(log)].chosenNeedsHyphen
  /\ Len(words) > log[Len(log)].wordIndex + 1
  /\ words[log[Len(log)].wordIndex + 2]
       = SubstrFrom(log[Len(log)].word, log[Len(log)].chosenOffset)

\* A word was split at a soft hyphen and the remainder keeps its markers.
SplitMutationWitnessSoft ==
  /\ log # <<>> /\ log[Len(log)].split
  /\ log[Len(log)].chosenNeedsHyphen
  /\ Len(words) > log[Len(log)].wordIndex + 1
  /\ containsSoftHyphen(words[log[Len(log)].wordIndex + 2])

\* ------------------------------------------------------------------------
\* The language setPreferredLanguage selects.
\* ------------------------------------------------------------------------
Separators(tag) == {k \in 1..Len(tag) : tag[k] \in {45, 95}}

\* The tag up to its first '-' or '_', ASCII letters lowered.
LoweredPrefix(tag) ==
  LET cut == IF Separators(tag) = {} THEN Len(tag)
             ELSE (CHOOSE k \in Separators(tag) : \A j \in Separators(tag) : k <= j) - 1
  IN [k \in 1..cut |-> IF tag[k] \in 65..90 THEN tag[k] + 32 ELSE tag[k]]

\* The registry entry with that primary tag, if any.
ExpectedLanguage(tag) ==
  IF \E l \in Languages : LanguageTags[l] = LoweredPrefix(tag)
  THEN CHOOSE l \in Languages : LanguageTags[l] = LoweredPrefix(tag)
  ELSE "none"

\* C17: after setPreferredLanguage(tag) the active hyphenator is the
\* registry entry whose primary tag is the lowercased prefix of tag up to the
\* first '-' or '_', and none when the tag is empty, starts with a separator
\* or names no registered language, whatever was active before the call.
LanguageSelection ==
  query.op = "setPreferredLanguage" =>
    /\ cachedHyphenator = ExpectedLanguage(query.lang)
    /\ (query.lang = <<>> \/ query.lang[1] \in {45, 95}) => cachedHyphenator = "none"

\* "en_GB" selected English.
LanguageSelectionWitness ==
  /\ query.op = "setPreferredLanguage"
  /\ query.lang = <<101, 110, 95, 71, 66>>
  /\ cachedHyphenator = "en"

\* "xx" cleared the active language.
LanguageSelectionWitnessCleared ==
  /\ query.op = "setPreferredLanguage"
  /\ query.lang = <<120, 120>>
  /\ cachedHyphenator = "none"

\* ------------------------------------------------------------------------
\* Fallback candidates of breakOffsets.
\* ------------------------------------------------------------------------
\* The breaks the active language proposes for the queried word.
QueryLanguageBreaks ==
  IF query.hyphenator = "none" THEN <<>>
  ELSE breakIndexes(query.hyphenator, trimmedCodepoints(query.word))

\* The queried word has no explicit marker between letters.
QueryHasNoMarker == buildExplicitBreakInfos(trimmedCodepoints(query.word)) = <<>>

QueryMinPrefix == IF query.hyphenator = "none" THEN kDefaultMinPrefix ELSE minPrefix(query.hyphenator)
QueryMinSuffix == IF query.hyphenator = "none" THEN kDefaultMinSuffix ELSE minSuffix(query.hyphenator)

\* The codepoint indexes of the trimmed word that keep the minimum prefix
\* and the minimum suffix.
FallbackGaps ==
  {idx \in 0..Len(trimmedCodepoints(query.word)) :
     QueryMinPrefix <= idx /\ idx + QueryMinSuffix <= Len(trimmedCodepoints(query.word))}

\* The result lists exactly the given codepoint indexes, by byte offset in
\* increasing order, each requiring an inserted hyphen.
ResultIsGaps(gaps) ==
  /\ Len(query.result) = Cardinality(gaps)
  /\ {query.result[k].byteOffset : k \in 1..Len(query.result)}
       = {trimmedCodepoints(query.word)[idx + 1].byteOffset : idx \in gaps}
  /\ \A k \in 1..(Len(query.result) - 1) :
       query.result[k].byteOffset < query.result[k + 1].byteOffset
  /\ \A k \in 1..Len(query.result) : query.result[k].requiresInsertedHyphen

\* C18: for a word without explicit markers, breakOffsets returns the gaps
\* the active language proposes when it proposes any, whatever the
\* includeFallback flag; when it proposes none (or no language is active) it
\* returns nothing without the flag, and with the flag one candidate for
\* every codepoint index idx of the trimmed word with minPrefix <= idx and
\* idx + minSuffix <= n, in increasing byte-offset order, each requiring an
\* inserted hyphen.
FallbackSynthesis ==
  (query.op = "breakOffsets" /\ QueryHasNoMarker) =>
    IF QueryLanguageBreaks # <<>>
    THEN ResultIsGaps({QueryLanguageBreaks[k] : k \in 1..Len(QueryLanguageBreaks)})
    ELSE IF query.includeFallback THEN ResultIsGaps(FallbackGaps)
    ELSE query.result = <<>>

\* "(bbbbbb)" with no language active and the flag set: the gaps 2, 3 and 4
\* of the trimmed word, at bytes 3, 4 and 5 of the word.
FallbackSynthesisWitness ==
  /\ query.op = "breakOffsets"
  /\ query.word = <<40, 98, 98, 98, 98, 98, 98, 41>>
  /\ query.hyphenator = "none" /\ query.includeFallback
  /\ [k \in 1..Len(query.result) |-> query.result[k].byteOffset] = <<3, 4, 5>>

\* The flag set, and no fallback added because the language proposed a break.
FallbackSynthesisWitnessLanguage ==
  /\ query.op = "breakOffsets"
  /\ query.hyphenator # "none" /\ query.includeFallback
  /\ QueryHasNoMarker /\ QueryLanguageBreaks # <<>>
  /\ Cardinality(FallbackGaps) > Len(query.result)

\* ------------------------------------------------------------------------
\* Minimum prefix and suffix of the language breaks.
\* ------------------------------------------------------------------------
\* C19: every break index i that a language hyphenator with minimums (p, s)
\* returns for a word of n codepoints satisfies p <= i <= n - s; English has
\* (3, 3), French, German and Russian the engine default.
MinimumAffix ==
  query.op = "breakIndexes" =>
    /\ minPrefix("en") = 3 /\ minSuffix("en") = 3
    /\ \A l \in Languages \ {"en"} :
         minPrefix(l) = kDefaultMinPrefix /\ minSuffix(l) = kDefaultMinSuffix
    /\ \A k \in 1..Len(query.result) :
         /\ minPrefix(query.hyphenator) <= query.result[k]
         /\ query.result[k] <= Len(trimmedCodepoints(query.word)) - minSuffix(query.hyphenator)

\* English asked for "ababab": the patterns vote for the gaps 1, 3 and 5 and
\* only gap 3 keeps three letters on both sides.
MinimumAffixWitness ==
  /\ query.op = "breakIndexes"
  /\ query.hyphenator = "en"
  /\ query.word = <<97, 98, 97, 98, 97, 98>>
  /\ query.result = <<3>>
  /\ breakIndexesUnfiltered("en", trimmedCodepoints(query.word)) = <<1, 3, 5>>

\* ------------------------------------------------------------------------
\* The pre-pass of computeLineBreaks.
\* ------------------------------------------------------------------------
\* computeLineBreaks has returned and no line has been extracted yet: the
\* buffer is as the pre-pass left it.
AfterPrePass == pc = "extract" /\ lineIdx = 0 /\ ~hyphenationEnabled

\* C20: after the pre-pass of computeLineBreaks every word of the buffer,
\* the remainders of pre-splits included, has a cached width of at most the
\* viewport width unless no break candidate of it (fallback included) leaves
\* a prefix that fits the viewport; every split attempt of the pre-pass
\* allows fallback breaks and offers the whole viewport width.
PrePassFits ==
  AfterPrePass =>
    /\ \A k \in 1..Len(words) :
         \/ wordWidths[k] <= viewportWidth
         \/ NoFittingBreak(words[k], wordStyles[k], cachedHyphenator, viewportWidth)
    /\ \A k \in 1..Len(log) :
         log[k].allowFallbackBreaks /\ log[k].availableWidth = viewportWidth

\* The pre-pass split a word and then split the remainder it had inserted.
PrePassFitsWitness ==
  /\ AfterPrePass
  /\ Len(log) >= 2
  /\ \E k \in 1..(Len(log) - 1) :
       /\ log[k].split
       /\ \E j \in (k + 1)..Len(log) :
            /\ log[j].split
            /\ log[j].wordIndex = log[k].wordIndex + 1
            /\ log[j].word = SubstrFrom(log[k].word, log[k].chosenOffset)

\* ------------------------------------------------------------------------
\* The line a call with includeLastLine = false withholds.
\* ------------------------------------------------------------------------
\* What the breaker of a recorded call made of the buffer it found: the
\* buffer after the splits and the break list.
CallLayout(c) ==
  LET indented == applyParagraphIndent(c.words, style, extraParagraphSpacing)
      buf0 == [words |-> indented, wordStyles |-> c.wordStyles,
               wordWidths |-> calculateWordWidths(indented, c.wordStyles),
               tags |-> [k \in 1..Len(c.words) |-> [id |-> k, ins |-> FALSE]], log |-> <<>>]
  IN IF hyphenationEnabled
     THEN computeHyphenatedLineBreaks(buf0, viewportWidth, spaceWidth, c.hyphenator)
     ELSE computeLineBreaks(buf0, viewportWidth, spaceWidth, c.hyphenator)

\* Line k (from 1) of a layout, taken from one of its lists.
LineOf(list, breaks, k) == SubSeq(list, LineStart(breaks, k) + 1, breaks[k])

\* The last call found words, was asked to withhold the last line, has
\* returned, and no word has been added since.
WithheldCallDone ==
  /\ LastCallDone(FALSE)
  /\ calls[Len(calls)].words # <<>>

\* The lines of the recorded call, less the last, were handed to
\* processLine in order and nothing else was; the buffer is the last line.
WithholdsLastLine(c, r) ==
  /\ Len(emitted) - c.emittedBefore = Len(r.lineBreakIndices) - 1
  /\ \A k \in 1..(Len(r.lineBreakIndices) - 1) :
       /\ emitted[c.emittedBefore + k].rawWords = LineOf(r.buf.words, r.lineBreakIndices, k)
       /\ emitted[c.emittedBefore + k].wordStyles
            = LineOf(r.buf.wordStyles, r.lineBreakIndices, k)
  /\ words = LineOf(r.buf.words, r.lineBreakIndices, Len(r.lineBreakIndices))
  /\ wordStyles = LineOf(r.buf.wordStyles, r.lineBreakIndices, Len(r.lineBreakIndices))

\* C21: a layout call with includeLastLine = false on a buffer that lays
\* out into n >= 1 lines hands lines 0..n-2 to processLine in order and
\* nothing else, and leaves in the buffer exactly the words and styles of
\* line n-1, splits of the call retained.
WithheldLastLine ==
  WithheldCallDone =>
    /\ Len(CallLayout(calls[Len(calls)]).lineBreakIndices) >= 1
    /\ WithholdsLastLine(calls[Len(calls)], CallLayout(calls[Len(calls)]))

\* A call that withheld a last line of two words, one of them the remainder
\* of a split made by the call, after emitting at least one line.
WithheldLastLineWitness ==
  /\ WithheldCallDone
  /\ Len(emitted) > calls[Len(calls)].emittedBefore
  /\ Len(words) >= 2
  /\ \E k \in 1..Len(tags) : \E b \in 1..Len(emitted) :
       emitted[b].tags[Len(emitted[b].tags)].id = tags[k].id

\* ------------------------------------------------------------------------
\* The lists of the live buffer.
\* ------------------------------------------------------------------------
\* The call is between its measuring of the words and its first extraction.
BeforeExtraction ==
  \/ pc \in {"presplit", "reconstruct", "greedy"}
  \/ pc = "extract" /\ lineIdx = 0

\* C22: in every reachable state, after any sequence of addWord, splits and
\* line extractions, there are as many styles as words, and inside a layout
\* call the cached-width list is as long as the word list until the first
\* line is extracted.
LiveBufferInvariant ==
  /\ Len(words) = Len(wordStyles)
  /\ BeforeExtraction => Len(wordWidths) = Len(words)

\* Inside a breaker loop, after a split has lengthened the three lists.
LiveBufferInvariantWitness ==
  /\ pc \in {"presplit", "greedy"}
  /\ Len(words) > Len(fed)
  /\ Len(words) >= 3

\* After an extraction has shortened the word and style lists.
LiveBufferInvariantWitnessExtracted ==
  /\ pc = "extract" /\ lineIdx > 0
  /\ words # <<>> /\ Len(words) < Len(wordWidths)

\* ------------------------------------------------------------------------
\* addWord.
\* ------------------------------------------------------------------------
\* What addWord makes of the live lists when handed the input.
Added(in) == addWordBuffer(words, wordStyles, in.word, in.fontStyle)

\* C23: on every buffer addWord with empty text leaves words and styles as
\* they are, and addWord with non-empty text appends exactly that word with
\* the given style behind the unchanged earlier words and styles; a step
\* that adds a word measures no width.
AddWordFrame ==
  /\ [](\A in \in WordInputs :
          IF in.word = <<>>
          THEN Added(in).words = words /\ Added(in).wordStyles = wordStyles
          ELSE /\ Len(Added(in).words) = Len(words) + 1
               /\ Len(Added(in).wordStyles) = Len(wordStyles) + 1
               /\ Added(in).words[Len(words) + 1] = in.word
               /\ Added(in).wordStyles[Len(wordStyles) + 1] = in.fontStyle
               /\ \A k \in 1..Len(words) :
                    Added(in).words[k] = words[k] /\ Added(in).wordStyles[k] = wordStyles[k])
  /\ [][fed' # fed =>
          /\ words' = Added(fed'[Len(fed')]).words
          /\ wordStyles' = Added(fed'[Len(fed')]).wordStyles
          /\ wordWidths' = wordWidths]_vars

\* A word was added behind the line a call with includeLastLine = false
\* had left in the buffer.
AddWordFrameWitness ==
  /\ pc = "idle"
  /\ calls # <<>> /\ Len(fed) > calls[Len(calls)].fedBefore
  /\ Len(words) >= 2
  /\ words[Len(words)] = fed[Len(fed)].word
  /\ wordStyles[Len(wordStyles)] = fed[Len(fed)].fontStyle

\* ------------------------------------------------------------------------
\* Single-line paragraphs.
\* ------------------------------------------------------------------------
\* The words of the recorded call as calculateWordWidths saw them.
IndentedOf(c) == applyParagraphIndent(c.words, style, extraParagraphSpacing)

\* Measured widths plus base spaces of the whole buffer of the call.
NaturalWidth(c) ==
  SumWidths(calculateWordWidths(IndentedOf(c), c.wordStyles), 0, Len(c.words))
    + (Len(c.words) - 1) * spaceWidth

\* The last call had words, included the last line and has returned.
FullCallDone == LastCallDone(TRUE) /\ calls[Len(calls)].words # <<>>

\* The call's buffer fits one line of the viewport.
FitsOneLine(c) == NaturalWidth(c) <= viewportWidth

\* C24: a buffer whose measured widths plus (wordCount - 1) base spaces are
\* at most the viewport width is emitted by a layout with includeLastLine =
\* true as exactly one line holding all words in order, by the DP breaker
\* and by the greedy breaker alike, and no word is split.
SingleLineParagraph ==
  (FullCallDone /\ FitsOneLine(calls[Len(calls)])) =>
    /\ Len(emitted) = calls[Len(calls)].emittedBefore + 1
    /\ emitted[Len(emitted)].rawWords = IndentedOf(calls[Len(calls)])
    /\ emitted[Len(emitted)].wordStyles = calls[Len(calls)].wordStyles
    /\ emitted[Len(emitted)].isLastLine
    /\ \A k \in 1..Len(log) : ~log[k].split
    /\ words = <<>>

\* The DP breaker put three words that fit on one line.
SingleLineParagraphWitness ==
  /\ FullCallDone /\ FitsOneLine(calls[Len(calls)])
  /\ ~hyphenationEnabled
  /\ Len(calls[Len(calls)].words) = 3
  /\ viewportWidth < 65535

\* The greedy breaker did the same.
SingleLineParagraphWitnessGreedy ==
  /\ FullCallDone /\ FitsOneLine(calls[Len(calls)])
  /\ hyphenationEnabled
  /\ Len(calls[Len(calls)].words) = 3

\* ------------------------------------------------------------------------
\* A word with one soft hyphen.
\* ------------------------------------------------------------------------
QueryCodepoints == collectCodepoints(query.word)

\* The codepoint positions (from 1) of the soft hyphens of the queried word.
SoftHyphensOfQuery == {k \in 1..Len(QueryCodepoints) : isSoftHyphen(QueryCodepoints[k].value)}

\* breakOffsets was asked about a word whose only hyphen marker is one soft
\* hyphen standing between two letters.
OneSoftHyphenQuery ==
  /\ query.op = "breakOffsets"
  /\ Cardinality(SoftHyphensOfQuery) = 1
  /\ \A k \in 1..Len(QueryCodepoints) :
       isExplicitHyphen(QueryCodepoints[k].value) => k \in SoftHyphensOfQuery
  /\ \A k \in SoftHyphensOfQuery :
       /\ 1 < k /\ k < Len(QueryCodepoints)
       /\ isAlphabetic(QueryCodepoints[k - 1].value)
       /\ isAlphabetic(QueryCodepoints[k + 1].value)

TheSoftHyphen == CHOOSE k \in SoftHyphensOfQuery : TRUE

\* C25 as stated: the one BreakInfo returned carries the byte offset of the
\* soft-hyphen marker itself and requires an inserted hyphen.
SoftHyphenBreakAtMarker ==
  OneSoftHyphenQuery =>
    query.result = <<[byteOffset |-> QueryCodepoints[TheSoftHyphen].byteOffset,
                      requiresInsertedHyphen |-> TRUE]>>

\* C25: for a word whose only hyphen marker is one soft hyphen between two
\* letters breakOffsets returns exactly one BreakInfo, requiring an inserted
\* hyphen, whose byte offset is that of the codepoint following the marker
\* (the marker's offset plus its two bytes), whatever the active language
\* and the fallback flag.
SoftHyphenBreakAfterMarker ==
  OneSoftHyphenQuery =>
    /\ query.result = <<[byteOffset |-> QueryCodepoints[TheSoftHyphen + 1].byteOffset,
                         requiresInsertedHyphen |-> TRUE]>>
    /\ query.result[1].byteOffset = QueryCodepoints[TheSoftHyphen].byteOffset + 2

\* The word in parentheses was queried with a language active and fallback
\* breaks allowed.
SoftHyphenBreakWitness ==
  /\ OneSoftHyphenQuery
  /\ query.hyphenator # "none" /\ query.includeFallback
  /\ QueryCodepoints[1].value = 40
  /\ Len(query.result) = 1

\* ------------------------------------------------------------------------
\* Paragraphs with words about as wide as the widest viewport: the words ab
\* and WWW (3 * 21845 = 65535 pixels) on a viewport of 65535 pixels.
\* ------------------------------------------------------------------------
MaxWideAdds == 2

WideWordInputs ==
  { [word |-> <<97, 98>>, fontStyle |-> "REGULAR"],
    [word |-> <<87, 87, 87>>, fontStyle |-> "REGULAR"] }

WideWidths == {65535}

AddWideWord == \E in \in WideWordInputs : addWord(in)

InitWide ==
  /\ Fresh
  /\ style \in BlockStyles
  /\ extraParagraphSpacing \in BOOLEAN
  /\ hyphenationEnabled \in BOOLEAN
  /\ cachedHyphenator = "none"
  /\ viewportWidth \in WideWidths
  /\ spaceWidth \in SpaceWidths
  /\ addBudget = MaxWideAdds
  /\ layoutBudget = 1

NextWide == AddWideWord \/ LayoutBegin \/ ExtractLine \/ LayoutEnd

SpecWide == InitWide /\ [][NextWide]_vars

\* ------------------------------------------------------------------------
\* The forced single-word line of the DP breaker.
\* ------------------------------------------------------------------------
\* computeLineBreaks has returned and its table is at hand.
DpTableReady == pc = "extract" /\ lineIdx = 0 /\ ~hyphenationEnabled

\* Length of the line of words i..j (from 0) with base spaces.
DpLineLength(i, j) == SumWidths(wordWidths, i, j + 1) + (j - i) * spaceWidth

\* The candidate ends of a line starting at i that fit the viewport.
FittingEnds(i) == {j \in i..(Len(wordWidths) - 1) : DpLineLength(i, j) <= viewportWidth}

\* cost(i, j) as the inner loop computes it from the finished table.
DpCostOf(i, j) ==
  IF j = Len(wordWidths) - 1 THEN 0
  ELSE LineCost(viewportWidth - DpLineLength(i, j), table.dp[j + 2])

DpMinCost(i) ==
  CHOOSE c \in {DpCostOf(i, j) : j \in FittingEnds(i)} :
    \A j \in FittingEnds(i) : c <= DpCostOf(i, j)

\* The indices the outer loop of the DP runs over.
DpIndices == 0..(Len(wordWidths) - 2)

\* C26: the forced single-word line at index i is taken only when no
\* candidate end j >= i fits the viewport, that is only when word i alone is
\* wider than the viewport; whenever some j fits, dp[i] is the minimum of
\* cost(i, j) over the fitting j and ans[i] is a fitting end of that cost.
ForcedOnlyWhenNothingFits ==
  DpTableReady =>
    \A i \in DpIndices :
      /\ i \in table.forced => (FittingEnds(i) = {} /\ wordWidths[i + 1] > viewportWidth)
      /\ FittingEnds(i) # {} =>
           /\ table.dp[i + 1] = DpMinCost(i)
           /\ table.ans[i + 1] \in FittingEnds(i)
           /\ DpCostOf(i, table.ans[i + 1]) = DpMinCost(i)

\* The same unless a cost of the table saturated at MAX_COST.
ForcedOnlyWhenNothingFitsUnsaturated ==
  (DpTableReady /\ ~table.saturated) =>
    \A i \in DpIndices :
      /\ i \in table.forced => (FittingEnds(i) = {} /\ wordWidths[i + 1] > viewportWidth)
      /\ FittingEnds(i) # {} =>
           /\ table.dp[i + 1] = DpMinCost(i)
           /\ table.ans[i + 1] \in FittingEnds(i)
           /\ DpCostOf(i, table.ans[i + 1]) = DpMinCost(i)

\* ------------------------------------------------------------------------
\* Alignment offsets.
\* ------------------------------------------------------------------------
\* Viewport width less the word widths and the base spaces of a block.
BlockLeftover(b) ==
  viewportWidth - SumWidths(b.widths, 0, Len(b.widths)) - (Len(b.widths) - 1) * spaceWidth

\* C27: on every emitted line that fits the viewport the first word's
\* x-offset is 0 for Justified and LeftAlign, the viewport width less the
\* word widths and (wordCount - 1) base spaces for RightAlign, where the
\* last word then ends exactly at the viewport edge, and the integer half
\* of that amount for CenterAlign.
AlignmentOffsets ==
  \A k \in 1..Len(emitted) :
    BlockLeftover(emitted[k]) >= 0 =>
      /\ emitted[k].style \in {"JUSTIFIED", "LEFT_ALIGN"} => emitted[k].wordXpos[1] = 0
      /\ emitted[k].style = "RIGHT_ALIGN" =>
           /\ emitted[k].wordXpos[1] = BlockLeftover(emitted[k])
           /\ emitted[k].wordXpos[Len(emitted[k].widths)]
                + emitted[k].widths[Len(emitted[k].widths)] = viewportWidth
      /\ emitted[k].style = "CENTER_ALIGN" =>
           emitted[k].wordXpos[1] = BlockLeftover(emitted[k]) \div 2

\* A right-aligned line of two words with room to spare was emitted.
AlignmentOffsetsWitness ==
  \E k \in 1..Len(emitted) :
    /\ emitted[k].style = "RIGHT_ALIGN"
    /\ Len(emitted[k].widths) >= 2
    /\ BlockLeftover(emitted[k]) > 0

\* A centred line of two words with an odd leftover was emitted.
AlignmentOffsetsWitnessCentre ==
  \E k \in 1..Len(emitted) :
    /\ emitted[k].style = "CENTER_ALIGN"
    /\ Len(emitted[k].widths) >= 2
    /\ BlockLeftover(emitted[k]) % 2 = 1

\* ------------------------------------------------------------------------
\* Two documents sharing the facade: the paragraph of one document is fed
\* and laid out page by page while either document calls
\* setPreferredLanguage between the operations, one with "en", the other
\* with "fr".
\* ------------------------------------------------------------------------
MaxSharedAdds == 2

SharedTagInputs == { <<101, 110>>, <<102, 114>> }

SharedWidths == {8}

\* Hyphenator::setPreferredLanguage called by either document between two
\* operations on the paragraph.
SetPreferredLanguageShared ==
  /\ pc = "idle"
  /\ \E lang \in SharedTagInputs :
       /\ query' = [op |-> "setPreferredLanguage", lang |-> lang]
       /\ cachedHyphenator' = hyphenatorForLanguage(lang)
  /\ UNCHANGED <<words, wordStyles, config, activities, pc, locals, emitted, tags, log, fed, calls, loop,
                 steps>>

InitShared ==
  /\ Fresh
  /\ style = "JUSTIFIED"
  /\ extraParagraphSpacing = TRUE
  /\ hyphenationEnabled \in BOOLEAN
  /\ cachedHyphenator = "none"
  /\ viewportWidth \in SharedWidths
  /\ spaceWidth \in SpaceWidths
  /\ addBudget = MaxSharedAdds
  /\ layoutBudget = MaxLayouts

NextShared == SetPreferredLanguageShared \/ AddWord \/ LayoutBegin \/ ExtractLine \/ LayoutEnd

SpecShared == InitShared /\ [][NextShared]_vars

\* C28: the active language changes only in a setPreferredLanguage step,
\* which makes it the language of the tag given; a layout call leaves it as
\* it is and every break lookup of the call uses the language active at the
\* call, which is the one set by the most recent setPreferredLanguage of
\* either document.
SharedActiveLanguage ==
  /\ [](query.op = "setPreferredLanguage" => cachedHyphenator = ExpectedLanguage(query.lang))
  /\ [][/\ cachedHyphenator' # cachedHyphenator => query'.op = "setPreferredLanguage"
        /\ query' # query =>
             /\ query'.op = "setPreferredLanguage"
             /\ cachedHyphenator' = ExpectedLanguage(query'.lang)
             /\ calls' = calls /\ log' = log /\ fed' = fed /\ emitted' = emitted
        /\ Len(calls') > Len(calls) =>
             /\ cachedHyphenator' = cachedHyphenator
             /\ calls'[Len(calls')].hyphenator = cachedHyphenator
             /\ \A k \in (Len(log) + 1)..Len(log') : log'[k].hyphenator = cachedHyphenator]_vars

\* The paragraph was laid out by two calls, the first under English; French
\* was set in between and the second call looked its breaks up in French.
SharedActiveLanguageWitness ==
  /\ pc = "idle"
  /\ Len(calls) = 2
  /\ calls[1].hyphenator = "en" /\ calls[2].hyphenator = "fr"
  /\ query.op = "setPreferredLanguage" /\ query.lang = <<102, 114>>
  /\ log # <<>> /\ log[Len(log)].hyphenator = "fr" /\ log[1].hyphenator = "en"

\* ------------------------------------------------------------------------
\* EpubReaderChapterSelectionActivity.
\* ------------------------------------------------------------------------
MaxTocItems == 3

\* Screen heights in pixels: 60 (no room for a line), 150, 180 and 480.
ScreenHeights == {60, 150, 180, 480}

SelectionButtons == {"Confirm", "Back", "Up", "Left", "Down", "Right"}

\* int division and remainder of C++: the quotient truncates toward zero
\* and the remainder has the sign of the dividend (b > 0).
TruncDiv(a, b) == IF a >= 0 THEN a \div b ELSE -((-a) \div b)
TruncRem(a, b) == a - b * TruncDiv(a, b)

getTotalItems(tocItemsCount, hasSyncOption) ==
  tocItemsCount + (IF hasSyncOption THEN 2 ELSE 0)

isSyncItem(index, tocItemsCount, hasSyncOption) ==
  IF ~hasSyncOption THEN FALSE
  ELSE index = 0 \/ index = getTotalItems(tocItemsCount, hasSyncOption) - 1

getPageItems(screenHeight) ==
  LET items == TruncDiv((screenHeight - 30) - 60, 30)
  IN IF items < 1 THEN 1 ELSE items

\* The selector after Up or Left was released.
prevSelector(selectorIndex, skipPage, pageItems, totalItems) ==
  IF skipPage
  THEN TruncRem((TruncDiv(selectorIndex, pageItems) - 1) * pageItems + totalItems, totalItems)
  ELSE TruncRem(selectorIndex + totalItems - 1, totalItems)

\* The selector after Down or Right was released.
nextSelector(selectorIndex, skipPage, pageItems, totalItems) ==
  IF skipPage
  THEN TruncRem((TruncDiv(selectorIndex, pageItems) + 1) * pageItems, totalItems)
  ELSE TruncRem(selectorIndex + 1, totalItems)

\* The activity after onEnter, for a book whose table of contents holds
\* tocItemsCount entries of which tocIndex (-1: none) is the current one.
selectionOnEnter(screenHeight, tocItemsCount, hasSyncOption, tocIndex) ==
  [open |-> TRUE, screenHeight |-> screenHeight, tocItemsCount |-> tocItemsCount,
   hasSyncOption |-> hasSyncOption,
   selectorIndex |-> (IF tocIndex = -1 THEN 0 ELSE tocIndex) + (IF hasSyncOption THEN 1 ELSE 0),
   updateRequired |-> TRUE, subActivity |-> FALSE]

\* One pass of loop() with at most one button released, after a short or a
\* long hold.
selectionLoop(sel, released, skipPage) ==
  LET pageItems == getPageItems(sel.screenHeight)
      totalItems == getTotalItems(sel.tocItemsCount, sel.hasSyncOption)
  IN IF sel.subActivity THEN sel
     ELSE IF released = "Confirm"
     THEN IF isSyncItem(sel.selectorIndex, sel.tocItemsCount, sel.hasSyncOption)
          THEN [sel EXCEPT !.subActivity = TRUE]
          ELSE [sel EXCEPT !.open = FALSE]
     ELSE IF released = "Back" THEN [sel EXCEPT !.open = FALSE]
     ELSE IF released \in {"Up", "Left"}
     THEN [sel EXCEPT !.selectorIndex = prevSelector(@, skipPage, pageItems, totalItems),
                      !.updateRequired = TRUE]
     ELSE IF released \in {"Down", "Right"}
     THEN [sel EXCEPT !.selectorIndex = nextSelector(@, skipPage, pageItems, totalItems),
                      !.updateRequired = TRUE]
     ELSE sel

SelectionLoop ==
  /\ chapterSelection.open
  /\ \E released \in SelectionButtons \cup {"none"}, skipPage \in BOOLEAN :
       chapterSelection' = selectionLoop(chapterSelection, released, skipPage)
  /\ UNCHANGED <<textLayout, authActivity, screens>>

\* The sync activity is cancelled and hands the screen back.
SelectionSyncCancelled ==
  /\ chapterSelection.open /\ chapterSelection.subActivity
  /\ chapterSelection' = [chapterSelection EXCEPT !.subActivity = FALSE, !.updateRequired = TRUE]
  /\ UNCHANGED <<textLayout, authActivity, screens>>

\* The sync activity completes: onSyncPosition closes the selection.
SelectionSyncComplete ==
  /\ chapterSelection.open /\ chapterSelection.subActivity
  /\ chapterSelection' = [chapterSelection EXCEPT !.subActivity = FALSE, !.open = FALSE]
  /\ UNCHANGED <<textLayout, authActivity, screens>>

\* One pass of displayTaskLoop that finds something to render.
SelectionDisplayTask ==
  /\ chapterSelection.open
  /\ chapterSelection.updateRequired /\ ~chapterSelection.subActivity
  /\ chapterSelection' = [chapterSelection EXCEPT !.updateRequired = FALSE]
  /\ UNCHANGED <<textLayout, authActivity, screens>>

InitSelection ==
  /\ FreshText
  /\ FreshScreens
  /\ cachedHyphenator = "none"
  /\ style = "JUSTIFIED"
  /\ extraParagraphSpacing = FALSE
  /\ hyphenationEnabled = TRUE
  /\ viewportWidth = 21
  /\ spaceWidth \in SpaceWidths
  /\ addBudget = 0
  /\ layoutBudget = 0
  /\ authActivity = NoAuthActivity
  /\ \E screenHeight \in ScreenHeights, tocItemsCount \in 0..MaxTocItems,
        hasSyncOption \in BOOLEAN, tocIndex \in -1..(MaxTocItems - 1) :
       /\ getTotalItems(tocItemsCount, hasSyncOption) >= 1
       /\ tocIndex < tocItemsCount
       /\ chapterSelection
            = selectionOnEnter(screenHeight, tocItemsCount, hasSyncOption, tocIndex)

NextSelection ==
  SelectionLoop \/ SelectionSyncCancelled \/ SelectionSyncComplete \/ SelectionDisplayTask

SpecSelection == InitSelection /\ [][NextSelection]_vars

SelectionTotalItems ==
  getTotalItems(chapterSelection.tocItemsCount, chapterSelection.hasSyncOption)

\* C29: after any sequence of Up/Down releases, short or long, with any
\* page size >= 1 and any item count >= 1, selectorIndex lies within
\* [0, getTotalItems()).
SelectorInRange ==
  chapterSelection.open =>
    /\ getPageItems(chapterSelection.screenHeight) >= 1
    /\ SelectionTotalItems >= 1
    /\ 0 <= chapterSelection.selectorIndex
    /\ chapterSelection.selectorIndex < SelectionTotalItems

\* The same where a page holds no more items than the list has.
SelectorInRangeFullPage ==
  (chapterSelection.open /\ getPageItems(chapterSelection.screenHeight) <= SelectionTotalItems) =>
    /\ 0 <= chapterSelection.selectorIndex
    /\ chapterSelection.selectorIndex < SelectionTotalItems

\* ------------------------------------------------------------------------
\* KOReaderAuthActivity: the main loop task, the display task and the task
\* that runs performAuthentication (the detached AuthTask when WiFi was up
\* at onEnter, the main loop task itself after a WiFi selection).
\*   renderingMutex  "free", the task holding it, or "deleted"
\*   displayTask     "waiting", "wantMutex", "rendering" or "deleted"
\*   performPc       the statement performAuthentication is about to run
\*   mainPc          "loop", "onExit" (up to its xSemaphoreTake),
\*                   "exitHolding" (past it) or "exited"
\*   heap            "corrupted" once a write into the released activity
\*                   has hit memory that was handed out again
\* ------------------------------------------------------------------------
AuthResults == {"OK", "AUTH_FAILED", "NETWORK_ERROR"}

errorString(result) == IF result = "AUTH_FAILED" THEN "Authentication failed" ELSE "Network error"

\* The activity after onEnter.
authOnEnter(wifiConnected) ==
  [open |-> TRUE,
   state |-> IF wifiConnected THEN "AUTHENTICATING" ELSE "WIFI_SELECTION",
   statusMessage |-> IF wifiConnected THEN "Authenticating..." ELSE "",
   errorMessage |-> "",
   updateRequired |-> wifiConnected,
   subActivity |-> ~wifiConnected,
   renderingMutex |-> "free",
   displayTask |-> "waiting",
   performer |-> IF wifiConnected THEN "AuthTask" ELSE "none",
   performPc |-> IF wifiConnected THEN "authenticate" ELSE "none",
   result |-> "OK",
   mainPc |-> "loop",
   heap |-> "intact"]

\* The main loop task is inside performAuthentication.
MainPerforms(a) == a.performer = "main" /\ a.performPc \notin {"none", "done"}

\* loop(): a press of Back or Confirm completes the activity once the state
\* is SUCCESS or FAILED; the owner then exits it.
authLoop(a, pressed) ==
  IF a.subActivity THEN a
  ELSE IF a.state \in {"SUCCESS", "FAILED"} /\ pressed THEN [a EXCEPT !.mainPc = "onExit"]
  ELSE a

AuthLoop ==
  /\ authActivity.open /\ authActivity.mainPc = "loop" /\ ~MainPerforms(authActivity)
  /\ \E pressed \in BOOLEAN : authActivity' = authLoop(authActivity, pressed)
  /\ UNCHANGED <<textLayout, chapterSelection, screens>>

\* onWifiSelectionComplete, called from the sub-activity on the main loop
\* task: both of its mutex sections, up to the call of performAuthentication.
onWifiSelectionComplete(a, success) ==
  IF ~success
  THEN [a EXCEPT !.subActivity = FALSE, !.state = "FAILED",
                 !.errorMessage = "WiFi connection failed", !.updateRequired = TRUE]
  ELSE [a EXCEPT !.subActivity = FALSE, !.state = "AUTHENTICATING",
                 !.statusMessage = "Authenticating...", !.updateRequired = TRUE,
                 !.performer = "main", !.performPc = "authenticate"]

AuthWifiSelectionComplete ==
  /\ authActivity.open /\ authActivity.mainPc = "loop" /\ authActivity.subActivity
  /\ authActivity.renderingMutex = "free"
  /\ \E success \in BOOLEAN : authActivity' = onWifiSelectionComplete(authActivity, success)
  /\ UNCHANGED <<textLayout, chapterSelection, screens>>

\* onExit up to and including xSemaphoreTake(renderingMutex, portMAX_DELAY).
AuthOnExitTake ==
  /\ authActivity.open /\ authActivity.mainPc = "onExit"
  /\ authActivity.renderingMutex = "free"
  /\ authActivity' = [authActivity EXCEPT !.renderingMutex = "main", !.mainPc = "exitHolding"]
  /\ UNCHANGED <<textLayout, chapterSelection, screens>>

\* The rest of onExit: the display task and the mutex are deleted.
onExitDelete(a) ==
  [a EXCEPT !.displayTask = "deleted", !.renderingMutex = "deleted", !.mainPc = "exited"]

AuthOnExitDelete ==
  /\ authActivity.open /\ authActivity.mainPc = "exitHolding"
  /\ authActivity' = onExitDelete(authActivity)
  /\ UNCHANGED <<textLayout, chapterSelection, screens>>

\* performAuthentication, statement by statement.
\* KOReaderSyncClient::authenticate().
AuthPerformAuthenticate ==
  /\ authActivity.open /\ authActivity.performPc = "authenticate"
  /\ \E result \in AuthResults :
       authActivity' = [authActivity EXCEPT !.result = result, !.performPc = "take"]
  /\ UNCHANGED <<textLayout, chapterSelection, screens>>

\* xSemaphoreTake(renderingMutex, portMAX_DELAY); on a deleted mutex the
\* call works on released memory.
AuthPerformTake ==
  /\ authActivity.open /\ authActivity.performPc = "take"
  /\ authActivity.renderingMutex \in {"free", "deleted"}
  /\ \E heap \in (IF authActivity.renderingMutex = "deleted" THEN {"intact", "corrupted"}
                  ELSE {authActivity.heap}) :
       authActivity' = [authActivity EXCEPT
                          !.renderingMutex = IF @ = "free" THEN "performer" ELSE @,
                          !.heap = heap, !.performPc = "write"]
  /\ UNCHANGED <<textLayout, chapterSelection, screens>>

\* The writes under the mutex.
performWrite(a) ==
  IF a.result = "OK"
  THEN [a EXCEPT !.state = "SUCCESS", !.statusMessage = "Successfully authenticated!",
                 !.performPc = "give"]
  ELSE [a EXCEPT !.state = "FAILED", !.errorMessage = errorString(a.result),
                 !.performPc = "give"]

AuthPerformWrite ==
  /\ authActivity.open /\ authActivity.performPc = "write"
  /\ \E heap \in (IF authActivity.mainPc = "exited" THEN {"intact", "corrupted"}
                  ELSE {authActivity.heap}) :
       authActivity' = [performWrite(authActivity) EXCEPT !.heap = heap]
  /\ UNCHANGED <<textLayout, chapterSelection, screens>>

\* xSemaphoreGive(renderingMutex).
AuthPerformGive ==
  /\ authActivity.open /\ authActivity.performPc = "give"
  /\ authActivity' = [authActivity EXCEPT
                        !.renderingMutex = IF @ = "performer" THEN "free" ELSE @,
                        !.performPc = "update"]
  /\ UNCHANGED <<textLayout, chapterSelection, screens>>

\* updateRequired = true, and the return (vTaskDelete(nullptr) in AuthTask).
\* After onExit the activity is released and the write lands wherever its
\* memory now is.
AuthPerformUpdate ==
  /\ authActivity.open /\ authActivity.performPc = "update"
  /\ \E heap \in (IF authActivity.mainPc = "exited" THEN {"intact", "corrupted"}
                  ELSE {authActivity.heap}) :
       authActivity' = [authActivity EXCEPT !.updateRequired = TRUE, !.heap = heap,
                                            !.performPc = "done"]
  /\ UNCHANGED <<textLayout, chapterSelection, screens>>

\* displayTaskLoop: the test and updateRequired = false.
AuthDisplayCheck ==
  /\ authActivity.open /\ authActivity.displayTask = "waiting"
  /\ authActivity.updateRequired /\ ~authActivity.subActivity
  /\ authActivity' = [authActivity EXCEPT !.updateRequired = FALSE, !.displayTask = "wantMutex"]
  /\ UNCHANGED <<textLayout, chapterSelection, screens>>

\* displayTaskLoop: xSemaphoreTake.
AuthDisplayTake ==
  /\ authActivity.open /\ authActivity.displayTask = "wantMutex"
  /\ authActivity.renderingMutex = "free"
  /\ authActivity' = [authActivity EXCEPT !.renderingMutex = "display",
                                          !.displayTask = "rendering"]
  /\ UNCHANGED <<textLayout, chapterSelection, screens>>

\* displayTaskLoop: render() and xSemaphoreGive.
AuthDisplayRender ==
  /\ authActivity.open /\ authActivity.displayTask = "rendering"
  /\ authActivity' = [authActivity EXCEPT !.renderingMutex = "free", !.displayTask = "waiting"]
  /\ UNCHANGED <<textLayout, chapterSelection, screens>>

InitAuth ==
  /\ FreshText
  /\ FreshScreens
  /\ cachedHyphenator = "none"
  /\ style = "JUSTIFIED"
  /\ extraParagraphSpacing = FALSE
  /\ hyphenationEnabled = TRUE
  /\ viewportWidth = 21
  /\ spaceWidth \in SpaceWidths
  /\ addBudget = 0
  /\ layoutBudget = 0
  /\ chapterSelection = NoChapterSelection
  /\ \E wifiConnected \in BOOLEAN : authActivity = authOnEnter(wifiConnected)

NextAuth ==
  \/ AuthLoop \/ AuthWifiSelectionComplete \/ AuthOnExitTake \/ AuthOnExitDelete
  \/ AuthPerformAuthenticate \/ AuthPerformTake \/ AuthPerformWrite \/ AuthPerformGive
  \/ AuthPerformUpdate
  \/ AuthDisplayCheck \/ AuthDisplayTake \/ AuthDisplayRender

SpecAuth == InitAuth /\ [][NextAuth]_vars

\* C30: once onExit has deleted renderingMutex and the display task, no
\* statement of performAuthentication that takes renderingMutex or writes
\* state, errorMessage or updateRequired is executed any more, in any
\* interleaving of the main loop, the display task and the AuthTask.
NoAccessAfterExit ==
  [][(authActivity.open /\ authActivity.mainPc = "exited"
        /\ authActivity'.performPc # authActivity.performPc)
       => authActivity.performPc \notin {"take", "write", "give", "update"}]_vars

\* After onExit performAuthentication never takes the deleted mutex and
\* writes neither state nor errorMessage: only updateRequired is left.
OnlyUpdateAfterExit ==
  [][(authActivity.open /\ authActivity.mainPc = "exited"
        /\ authActivity'.performPc # authActivity.performPc)
       => /\ authActivity.performPc = "update"
          /\ authActivity.performer = "AuthTask"
          /\ authActivity'.state = authActivity.state
          /\ authActivity'.errorMessage = authActivity.errorMessage
          /\ authActivity'.renderingMutex = "deleted"]_vars

\* ------------------------------------------------------------------------
\* Width cache and emitted strings.
\* ------------------------------------------------------------------------
\* C34: for every word of every extracted line the cached width the line
\* was placed with equals the measurer's width of the exact string emitted
\* for that word (soft hyphens stripped, indent glyph and appended hyphen
\* included) in the word's style, after any indent, pre-split and greedy
\* split.
WidthCacheConsistent ==
  \A k \in 1..Len(emitted) :
    /\ Len(emitted[k].widths) = Len(emitted[k].words)
    /\ \A j \in 1..Len(emitted[k].words) :
         /\ ~containsSoftHyphen(emitted[k].words[j])
         /\ emitted[k].widths[j]
              = ToUint16(getTextWidth(emitted[k].words[j], emitted[k].wordStyles[j]))

\* A line was emitted whose first word carries the indent glyph and whose
\* last word is a prefix with an appended hyphen, cut from a word that held
\* soft hyphens.
WidthCacheConsistentWitness ==
  \E k \in 1..Len(emitted) :
    /\ Len(emitted[k].words) >= 2
    /\ emitted[k].words[1][1] = 226
    /\ emitted[k].tags[Len(emitted[k].words)].ins
    /\ emitted[k].rawWords[Len(emitted[k].words)] # emitted[k].words[Len(emitted[k].words)]

\* ------------------------------------------------------------------------
\* Range of the x-offsets.
\* ------------------------------------------------------------------------
\* The pixel position of the first word of a block computed in unbounded
\* integers: the leftover for RightAlign, its half for CenterAlign, else 0.
TrueFirstOffset(b) ==
  IF b.style = "RIGHT_ALIGN" THEN BlockLeftover(b)
  ELSE IF b.style = "CENTER_ALIGN" THEN TruncDiv(BlockLeftover(b), 2)
  ELSE 0

\* C35: every x-offset stored in an emitted TextBlock is at most
\* viewportWidth and the first one is the true, non-negative position of
\* its word, for every alignment, forced oversized words included; none is
\* a negative value wrapped into 16 bits.
XOffsetsInRange ==
  \A k \in 1..Len(emitted) :
    /\ TrueFirstOffset(emitted[k]) >= 0
    /\ emitted[k].wordXpos[1] = TrueFirstOffset(emitted[k])
    /\ \A j \in 1..Len(emitted[k].wordXpos) :
         0 <= emitted[k].wordXpos[j] /\ emitted[k].wordXpos[j] <= viewportWidth

\* The same for the lines that fit the viewport.
XOffsetsInRangeFitting ==
  \A k \in 1..Len(emitted) :
    BlockLeftover(emitted[k]) >= 0 =>
      /\ emitted[k].wordXpos[1] = TrueFirstOffset(emitted[k])
      /\ \A j \in 1..Len(emitted[k].wordXpos) :
           0 <= emitted[k].wordXpos[j] /\ emitted[k].wordXpos[j] <= viewportWidth

\* ---------------------------------------------------------------------
\* HomeActivity: the home screen, its loop() on the main task and its
\* display task, stepped statement by statement where the two tasks meet.
\* ---------------------------------------------------------------------

MaxPresses == 2
MaxRecentBooks == 2

\* HomeActivity::getMenuItemCount
getMenuItemCount(recentBooks, hasOpdsUrl) ==
  4 + recentBooks + (IF hasOpdsUrl THEN 1 ELSE 0)

\* The menu labels render() builds, "OPDS Browser" inserted at begin() + 2.
homeMenuItems(hasOpdsUrl) ==
  IF hasOpdsUrl
    THEN <<"Browse Files", "Recents", "OPDS Browser", "File Transfer", "Settings">>
    ELSE <<"Browse Files", "Recents", "File Transfer", "Settings">>

\* The callback loop() invokes on Confirm, with the recent book it passes.
homeDispatch(selectorIndex, recentBooks, hasOpdsUrl) ==
  LET menuSelectedIndex == selectorIndex - recentBooks
      myLibraryIdx == 0
      recentsIdx == 1
      opdsLibraryIdx == IF hasOpdsUrl THEN 2 ELSE -1
      fileTransferIdx == IF hasOpdsUrl THEN 3 ELSE 2
      settingsIdx == IF hasOpdsUrl THEN 4 ELSE 3
  IN  IF selectorIndex < recentBooks THEN [callback |-> "onSelectBook", arg |-> selectorIndex]
      ELSE IF menuSelectedIndex = myLibraryIdx THEN [callback |-> "onMyLibraryOpen", arg |-> -1]
      ELSE IF menuSelectedIndex = recentsIdx THEN [callback |-> "onRecentsOpen", arg |-> -1]
      ELSE IF menuSelectedIndex = opdsLibraryIdx THEN [callback |-> "onOpdsBrowserOpen", arg |-> -1]
      ELSE IF menuSelectedIndex = fileTransferIdx THEN [callback |-> "onFileTransferOpen", arg |-> -1]
      ELSE IF menuSelectedIndex = settingsIdx THEN [callback |-> "onSettingsOpen", arg |-> -1]
      ELSE [callback |-> "none", arg |-> -1]

\* loop() on a previous/next press: the new selectorIndex.
homeSelector(selectorIndex, menuCount, button) ==
  IF button = "prev" THEN TruncRem(selectorIndex + menuCount - 1, menuCount)
  ELSE TruncRem(selectorIndex + 1, menuCount)

\* HomeActivity::onEnter, on a card holding storedBooks recent books.
homeOnEnter(hasContinueReading, hasOpdsUrl, storedBooks) ==
  [open |-> TRUE, hasContinueReading |-> hasContinueReading, hasOpdsUrl |-> hasOpdsUrl,
   storedBooks |-> storedBooks, recentBooks |-> 0, recentsLoaded |-> FALSE,
   recentsLoading |-> FALSE, firstRenderDone |-> FALSE,
   selectorIndex |-> 0, updateRequired |-> TRUE,
   renderingMutex |-> "free", displayTask |-> "waiting", mainPc |-> "loop",
   presses |-> 0, renderedPress |-> 0,
   screen |-> [drawn |-> FALSE, entries |-> <<>>, selected |-> 0],
   invoked |-> [callback |-> "none", arg |-> -1], deletedIn |-> "none"]

\* Whether this render() takes the branch that calls loadRecentBooks.
homeRenderLoads(h) ==
  h.hasContinueReading /\ ~h.recentsLoaded /\ ~h.recentsLoading /\ h.firstRenderDone

\* HomeActivity::loadRecentBooks, called from render() on the display task.
loadRecentBooks(h) ==
  [h EXCEPT !.recentBooks = h.storedBooks, !.recentsLoaded = TRUE, !.recentsLoading = FALSE,
            !.updateRequired = TRUE, !.displayTask = "drawing"]

\* What render() puts on the screen: the covers when it drew them, then the
\* button menu with its highlighted row.
homeEntries(h, covers) ==
  [k \in 1..(IF covers THEN h.recentBooks ELSE 0) |-> [label |-> "book", arg |-> k - 1]]
    \o [k \in 1..Len(homeMenuItems(h.hasOpdsUrl)) |->
          [label |-> homeMenuItems(h.hasOpdsUrl)[k], arg |-> -1]]

\* The rest of render(): the drawing, displayBuffer and the first-render flag.
homeRenderDraw(h, covers) ==
  [h EXCEPT !.screen = [drawn |-> TRUE, entries |-> homeEntries(h, covers),
                        selected |-> h.selectorIndex - h.recentBooks],
            !.renderedPress = h.presses,
            !.firstRenderDone = TRUE,
            !.updateRequired = IF h.firstRenderDone THEN h.updateRequired ELSE TRUE,
            !.displayTask = "giving"]

\* displayTaskLoop: the test of updateRequired, then its clearing.
displayClearsFlag(h) == [h EXCEPT !.updateRequired = FALSE, !.displayTask = "wantMutex"]

\* xSemaphoreTake(renderingMutex, portMAX_DELAY) returns once the mutex is free.
homeMutexNeverWaits(h) == TRUE
homeMutexAvailable(h) == h.renderingMutex = "free"

\* displayTaskLoop: xSemaphoreGive after render().
displayGiveClearsFlag(h) ==
  [h EXCEPT !.renderingMutex = "free", !.displayTask = "waiting", !.updateRequired = FALSE]
displayGive(h) == [h EXCEPT !.renderingMutex = "free", !.displayTask = "waiting"]

\* loop(): a previous/next press writes selectorIndex ...
HomeLoopPress ==
  /\ homeActivity.open /\ homeActivity.mainPc = "loop"
  /\ homeActivity.presses < MaxPresses
  /\ \E button \in {"prev", "next"} :
       homeActivity' =
         [homeActivity EXCEPT
            !.selectorIndex =
               homeSelector(homeActivity.selectorIndex,
                            getMenuItemCount(homeActivity.recentBooks, homeActivity.hasOpdsUrl),
                            button),
            !.presses = homeActivity.presses + 1,
            !.mainPc = "setFlag"]
  /\ UNCHANGED <<textLayout, chapterSelection, authActivity, myLibrary, settings>>

\* ... and then sets updateRequired.
HomeLoopSetFlag ==
  /\ homeActivity.open /\ homeActivity.mainPc = "setFlag"
  /\ homeActivity' = [homeActivity EXCEPT !.updateRequired = TRUE, !.mainPc = "loop"]
  /\ UNCHANGED <<textLayout, chapterSelection, authActivity, myLibrary, settings>>

\* loop(): Confirm released; the callback replaces the activity, which exits.
HomeLoopConfirm ==
  /\ homeActivity.open /\ homeActivity.mainPc = "loop"
  /\ homeActivity' =
       [homeActivity EXCEPT
          !.invoked = homeDispatch(homeActivity.selectorIndex, homeActivity.recentBooks,
                                   homeActivity.hasOpdsUrl),
          !.mainPc = "onExit"]
  /\ UNCHANGED <<textLayout, chapterSelection, authActivity, myLibrary, settings>>

\* onExit: xSemaphoreTake(renderingMutex, portMAX_DELAY).
HomeOnExitTake ==
  /\ homeActivity.open /\ homeActivity.mainPc = "onExit"
  /\ homeMutexAvailable(homeActivity)
  /\ homeActivity' = [homeActivity EXCEPT !.renderingMutex = "main", !.mainPc = "exitHolding"]
  /\ UNCHANGED <<textLayout, chapterSelection, authActivity, myLibrary, settings>>

\* onExit: vTaskDelete, vSemaphoreDelete, freeCoverBuffer.
HomeOnExitDelete ==
  /\ homeActivity.open /\ homeActivity.mainPc = "exitHolding"
  /\ homeActivity' =
       [homeActivity EXCEPT !.deletedIn = homeActivity.displayTask, !.displayTask = "deleted",
                            !.renderingMutex = "deleted", !.mainPc = "exited"]
  /\ UNCHANGED <<textLayout, chapterSelection, authActivity, myLibrary, settings>>

\* displayTaskLoop: if (updateRequired) ...
HomeDisplayCheck ==
  /\ homeActivity.open /\ homeActivity.displayTask = "waiting"
  /\ homeActivity.updateRequired
  /\ homeActivity' = [homeActivity EXCEPT !.displayTask = "clearing"]
  /\ UNCHANGED <<textLayout, chapterSelection, authActivity, myLibrary, settings>>

\* ... updateRequired = false;
HomeDisplayClear ==
  /\ homeActivity.open /\ homeActivity.displayTask = "clearing"
  /\ homeActivity' = displayClearsFlag(homeActivity)
  /\ UNCHANGED <<textLayout, chapterSelection, authActivity, myLibrary, settings>>

\* ... xSemaphoreTake(renderingMutex, portMAX_DELAY);
HomeDisplayTake ==
  /\ homeActivity.open /\ homeActivity.displayTask = "wantMutex"
  /\ homeMutexAvailable(homeActivity)
  /\ homeActivity' = [homeActivity EXCEPT !.renderingMutex = "display", !.displayTask = "rendering"]
  /\ UNCHANGED <<textLayout, chapterSelection, authActivity, myLibrary, settings>>

\* ... render(), when it loads the recent books first ...
HomeRenderLoad ==
  /\ homeActivity.open /\ homeActivity.displayTask = "rendering"
  /\ homeRenderLoads(homeActivity)
  /\ homeActivity' = loadRecentBooks(homeActivity)
  /\ UNCHANGED <<textLayout, chapterSelection, authActivity, myLibrary, settings>>

\* ... render(), the drawing after a load (no covers in this frame) ...
HomeRenderDrawLoaded ==
  /\ homeActivity.open /\ homeActivity.displayTask = "drawing"
  /\ homeActivity' = homeRenderDraw(homeActivity, FALSE)
  /\ UNCHANGED <<textLayout, chapterSelection, authActivity, myLibrary, settings>>

\* ... render(), when it loads nothing ...
HomeRenderDraw ==
  /\ homeActivity.open /\ homeActivity.displayTask = "rendering"
  /\ ~homeRenderLoads(homeActivity)
  /\ homeActivity' =
       homeRenderDraw(homeActivity, homeActivity.hasContinueReading /\ homeActivity.recentsLoaded)
  /\ UNCHANGED <<textLayout, chapterSelection, authActivity, myLibrary, settings>>

\* ... xSemaphoreGive(renderingMutex); vTaskDelay.
HomeDisplayGive ==
  /\ homeActivity.open /\ homeActivity.displayTask = "giving"
  /\ homeActivity' = displayGive(homeActivity)
  /\ UNCHANGED <<textLayout, chapterSelection, authActivity, myLibrary, settings>>

InitHome ==
  /\ FreshText
  /\ cachedHyphenator = "none"
  /\ style = "JUSTIFIED"
  /\ extraParagraphSpacing = FALSE
  /\ hyphenationEnabled = TRUE
  /\ viewportWidth = 21
  /\ spaceWidth = 3
  /\ addBudget = 0
  /\ layoutBudget = 0
  /\ chapterSelection = NoChapterSelection
  /\ authActivity = NoAuthActivity
  /\ myLibrary = NoMyLibrary
  /\ settings = NoSettings
  /\ \E hasContinueReading \in BOOLEAN, hasOpdsUrl \in BOOLEAN, storedBooks \in 0..MaxRecentBooks :
       homeActivity = homeOnEnter(hasContinueReading, hasOpdsUrl, storedBooks)

HomeDisplayStep ==
  \/ HomeDisplayCheck
  \/ HomeDisplayClear
  \/ HomeDisplayTake
  \/ HomeRenderLoad
  \/ HomeRenderDrawLoaded
  \/ HomeRenderDraw
  \/ HomeDisplayGive

HomeOnExitStep ==
  \/ HomeOnExitTake
  \/ HomeOnExitDelete

NextHome ==
  \/ HomeLoopPress
  \/ HomeLoopSetFlag
  \/ HomeLoopConfirm
  \/ HomeOnExitStep
  \/ HomeDisplayStep

\* FreeRTOS runs the display task whenever it is ready (its vTaskDelay lets
\* the main task run and the main task's own delay lets it run), and a
\* task blocked on a free mutex gets it.
SpecHome ==
  InitHome /\ [][NextHome]_vars /\ WF_vars(HomeDisplayStep) /\ WF_vars(HomeOnExitStep)

\* ---------------------------------------------------------------------
\* C31: no lost screen update. In HomeActivity, once loop() has written its
\* n-th selection and set updateRequired, then while the activity stays in
\* its loop a render eventually runs that read selectorIndex at or after
\* that write; and the selection on the screen is eventually, and from then
\* on, the current one unless the activity is leaving.
\* ---------------------------------------------------------------------
NoLostUpdate ==
  /\ \A n \in 1..MaxPresses :
       (homeActivity.presses = n /\ homeActivity.mainPc = "loop")
         ~> (homeActivity.renderedPress >= n \/ homeActivity.mainPc # "loop")
  /\ <>[](\/ homeActivity.mainPc # "loop"
          \/ /\ homeActivity.screen.drawn
             /\ homeActivity.screen.selected
                  = homeActivity.selectorIndex - homeActivity.recentBooks)

\* Every selection the run allows has been written, the display task is idle
\* again with the flag clear, and the screen shows the last selection.
NoLostUpdateWitness ==
  /\ homeActivity.mainPc = "loop"
  /\ homeActivity.presses = MaxPresses
  /\ homeActivity.renderedPress = MaxPresses
  /\ homeActivity.displayTask = "waiting"
  /\ ~homeActivity.updateRequired
  /\ homeActivity.selectorIndex # 0
  /\ homeActivity.screen.selected = homeActivity.selectorIndex - homeActivity.recentBooks

\* ---------------------------------------------------------------------
\* C32: the display task is never deleted in the middle of a render.
\* render() runs only while the display task holds renderingMutex, onExit
\* deletes the task only while it is outside that critical section, and an
\* onExit that has begun always completes.
\* ---------------------------------------------------------------------
InRenderSection(task) == task \in {"rendering", "drawing", "giving"}

NoDeleteMidRender ==
  /\ [](/\ InRenderSection(homeActivity.displayTask) => homeActivity.renderingMutex = "display"
        /\ ~InRenderSection(homeActivity.deletedIn))
  /\ (homeActivity.mainPc = "onExit") ~> (homeActivity.mainPc = "exited")

\* onExit has completed, and it deleted a display task that had a render
\* pending and was blocked on the mutex onExit held.
NoDeleteMidRenderWitness ==
  /\ homeActivity.mainPc = "exited"
  /\ homeActivity.deletedIn = "wantMutex"
  /\ homeActivity.displayTask = "deleted"
  /\ homeActivity.screen.drawn

\* ---------------------------------------------------------------------
\* C36: home menu dispatch consistency. For every selectorIndex below
\* getMenuItemCount(), the callback Confirm invokes is the one of the entry
\* the screen shows at that position (recent book k at index k, then Browse
\* Files, Recents, OPDS Browser when configured, File Transfer, Settings),
\* and getMenuItemCount() is the number of entries on the screen.
\* ---------------------------------------------------------------------
CallbackOfEntry(entry) ==
  IF entry.label = "book" THEN [callback |-> "onSelectBook", arg |-> entry.arg]
  ELSE IF entry.label = "Browse Files" THEN [callback |-> "onMyLibraryOpen", arg |-> -1]
  ELSE IF entry.label = "Recents" THEN [callback |-> "onRecentsOpen", arg |-> -1]
  ELSE IF entry.label = "OPDS Browser" THEN [callback |-> "onOpdsBrowserOpen", arg |-> -1]
  ELSE IF entry.label = "File Transfer" THEN [callback |-> "onFileTransferOpen", arg |-> -1]
  ELSE [callback |-> "onSettingsOpen", arg |-> -1]

ScreenMatchesDispatch(h) ==
  /\ getMenuItemCount(h.recentBooks, h.hasOpdsUrl) = Len(h.screen.entries)
  /\ \A i \in 0..(getMenuItemCount(h.recentBooks, h.hasOpdsUrl) - 1) :
       /\ i + 1 <= Len(h.screen.entries)
       /\ homeDispatch(i, h.recentBooks, h.hasOpdsUrl) = CallbackOfEntry(h.screen.entries[i + 1])

DispatchConsistent ==
  (homeActivity.open /\ homeActivity.screen.drawn /\ homeActivity.mainPc = "loop")
    => ScreenMatchesDispatch(homeActivity)

\* The same once the covers of the loaded recent books are on the screen,
\* or when no recent book is loaded.
DispatchConsistentOnceDrawn ==
  ( /\ homeActivity.open /\ homeActivity.screen.drawn /\ homeActivity.mainPc = "loop"
    /\ Len(homeActivity.screen.entries)
         = homeActivity.recentBooks + Len(homeMenuItems(homeActivity.hasOpdsUrl)) )
    => ScreenMatchesDispatch(homeActivity)

\* ---------------------------------------------------------------------
\* MyLibraryActivity: the file browser. selectorIndex is a size_t, so its
\* arithmetic in loop() is unsigned and 32 bits wide on the device. A size_t
\* is held as the 32-bit two's-complement integer with the same bits: -k
\* stands for 2^32 - k, and +, - and * are then the machine's.
\* ---------------------------------------------------------------------

MaxLibraryInputs == 4

\* x % d on size_t operands (2^32 = 2 * MAX_COST + 2).
URem32(x, d) ==
  IF x >= 0 THEN x % d
  ELSE (2 * (MAX_COST % d) + 2 + (x % d)) % d

\* Whether the size_t is a valid index into a list of that length.
ValidIndex(x, len) == 0 <= x /\ x < len

\* The card: for each folder, the entries loadFiles() keeps, as sortFileList
\* leaves them (folders first, then by name).
CardFolders ==
  { <<>>, <<"books">>, <<"empty">>, <<"books", "sf">> }

CardListing(path) ==
  IF path = <<>> THEN
    << [name |-> "books", dir |-> TRUE], [name |-> "empty", dir |-> TRUE],
       [name |-> "notes.txt", dir |-> FALSE] >>
  ELSE IF path = <<"books">> THEN
    << [name |-> "sf", dir |-> TRUE], [name |-> "a.epub", dir |-> FALSE],
       [name |-> "b.epub", dir |-> FALSE], [name |-> "c.epub", dir |-> FALSE],
       [name |-> "d.epub", dir |-> FALSE] >>
  ELSE IF path = <<"books", "sf">> THEN
    << [name |-> "x.epub", dir |-> FALSE] >>
  ELSE <<>>

LibraryPageItems == {2, 3}
LibraryInputs ==
  [button : {"Up", "Down", "Confirm", "Back", "BackPressed"}, held : {"short", "skip", "long"}]

\* MyLibraryActivity::loadFiles
loadFiles(basepath) == CardListing(basepath)

\* MyLibraryActivity::findEntry(dirName + "/")
findEntry(files, dirName) ==
  LET hits == {i \in 1..Len(files) : files[i].dir /\ files[i].name = dirName}
  IN  IF hits = {} THEN 0 ELSE (CHOOSE i \in hits : \A j \in hits : i <= j) - 1

\* MyLibraryActivity::onEnter
libraryOnEnter(pageItems) ==
  [open |-> TRUE, basepath |-> <<>>, files |-> loadFiles(<<>>), selectorIndex |-> 0,
   updateRequired |-> TRUE, pageItems |-> pageItems, inputs |-> 0,
   moduloByZero |-> FALSE, crashed |-> FALSE, left |-> "no"]

\* The dividend of the Up/Down statement of loop(), in size_t arithmetic.
\* (selectorIndex / pageItems) * pageItems is selectorIndex less its remainder.
moveDividend(selectorIndex, listSize, pageItems, up, skipPage) ==
  LET pageStart == selectorIndex - URem32(selectorIndex, pageItems)
  IN  IF up
        THEN IF skipPage THEN (pageStart - pageItems) + listSize
             ELSE selectorIndex + listSize - 1
        ELSE IF skipPage THEN pageStart + pageItems
             ELSE selectorIndex + 1

\* The Up/Down statement of loop(): x % listSize. With an empty list this is
\* a remainder by zero, which is undefined: the device's remu yields the
\* dividend, a trapping build stops the program.
moveSelector(lib, up, skipPage) ==
  LET listSize == Len(lib.files)
      dividend == moveDividend(lib.selectorIndex, listSize, lib.pageItems, up, skipPage)
  IN  IF listSize = 0
        THEN { [lib EXCEPT !.selectorIndex = dividend, !.updateRequired = TRUE,
                           !.moduloByZero = TRUE],
               [lib EXCEPT !.moduloByZero = TRUE, !.crashed = TRUE] }
        ELSE { [lib EXCEPT !.selectorIndex = URem32(dividend, listSize),
                           !.updateRequired = TRUE] }

\* loop(): Confirm released on a folder or a book.
libraryConfirm(lib) ==
  IF Len(lib.files) = 0 THEN lib
  ELSE IF lib.files[lib.selectorIndex + 1].dir
    THEN [lib EXCEPT !.basepath = Append(lib.basepath, lib.files[lib.selectorIndex + 1].name),
                     !.files = loadFiles(Append(lib.basepath, lib.files[lib.selectorIndex + 1].name)),
                     !.selectorIndex = 0, !.updateRequired = TRUE]
    ELSE [lib EXCEPT !.left = "onSelectBook"]

\* loop(): Back released after a short press.
libraryBack(lib) ==
  IF lib.basepath # <<>>
    THEN LET parent == SubSeq(lib.basepath, 1, Len(lib.basepath) - 1)
         IN  [lib EXCEPT !.basepath = parent, !.files = loadFiles(parent),
                         !.selectorIndex =
                            findEntry(loadFiles(parent), lib.basepath[Len(lib.basepath)]),
                         !.updateRequired = TRUE]
    ELSE [lib EXCEPT !.left = "onGoHome"]

\* MyLibraryActivity::loop on one frame's input: the outcomes it can have.
libraryLoop(lib, in) ==
  IF in.button = "BackPressed"
    THEN IF in.held = "long" /\ lib.basepath # <<>>
           THEN { [lib EXCEPT !.basepath = <<>>, !.files = loadFiles(<<>>),
                              !.selectorIndex = 0, !.updateRequired = TRUE] }
           ELSE { lib }
  ELSE IF in.button = "Confirm" THEN { libraryConfirm(lib) }
  ELSE IF in.button = "Back"
    THEN IF in.held # "long" THEN { libraryBack(lib) } ELSE { lib }
  ELSE moveSelector(lib, in.button = "Up", in.held # "short")

MyLibraryLoop ==
  /\ myLibrary.open /\ myLibrary.left = "no" /\ ~myLibrary.crashed
  /\ myLibrary.inputs < MaxLibraryInputs
  /\ \E in \in LibraryInputs :
       \E r \in libraryLoop(myLibrary, in) :
         myLibrary' = [r EXCEPT !.inputs = myLibrary.inputs + 1]
  /\ UNCHANGED <<textLayout, chapterSelection, authActivity, homeActivity, settings>>

InitLibrary ==
  /\ FreshText
  /\ cachedHyphenator = "none"
  /\ style = "JUSTIFIED"
  /\ extraParagraphSpacing = FALSE
  /\ hyphenationEnabled = TRUE
  /\ viewportWidth = 21
  /\ spaceWidth = 3
  /\ addBudget = 0
  /\ layoutBudget = 0
  /\ chapterSelection = NoChapterSelection
  /\ authActivity = NoAuthActivity
  /\ homeActivity = NoHomeActivity
  /\ settings = NoSettings
  /\ \E pageItems \in LibraryPageItems : myLibrary = libraryOnEnter(pageItems)

NextLibrary == MyLibraryLoop

SpecLibrary == InitLibrary /\ [][NextLibrary]_vars

\* ---------------------------------------------------------------------
\* C33: in MyLibraryActivity selectorIndex is a valid index into files
\* whenever files is not empty, and in an empty folder an Up/Down release
\* performs no modulo by a zero list size and leaves selectorIndex at 0.
\* ---------------------------------------------------------------------
LibrarySelectorValid ==
  myLibrary.open =>
    /\ Len(myLibrary.files) > 0 => ValidIndex(myLibrary.selectorIndex, Len(myLibrary.files))
    /\ Len(myLibrary.files) = 0 => myLibrary.selectorIndex = 0
    /\ ~myLibrary.moduloByZero

\* The first half alone: a valid index whenever a file is listed.
LibrarySelectorValidNonEmpty ==
  (myLibrary.open /\ Len(myLibrary.files) > 0)
    => ValidIndex(myLibrary.selectorIndex, Len(myLibrary.files))

\* ---------------------------------------------------------------------
\* CrossPointSettings: saveToFile and loadFromFile over the bytes of
\* /.crosspoint/settings.bin. A setting in memory is looked up by its
\* member name; the file is a flat sequence of bytes read at a cursor.
\* ---------------------------------------------------------------------

SETTINGS_FILE_VERSION == 1
SETTINGS_COUNT == 24

\* sizeof of the three char buffers (declared in CrossPointSettings.h).
OPDS_BUFFER_SIZE == 128

\* The members saveToFile writes, in the order of its statements.
saveFieldOrderSwapped ==
  << [name |-> "sleepScreen", write |-> "pod"], [name |-> "extraParagraphSpacing", write |-> "pod"],
     [name |-> "shortPwrBtn", write |-> "pod"], [name |-> "statusBar", write |-> "pod"],
     [name |-> "orientation", write |-> "pod"], [name |-> "frontButtonLayout", write |-> "pod"],
     [name |-> "sideButtonLayout", write |-> "pod"], [name |-> "fontFamily", write |-> "pod"],
     [name |-> "fontSize", write |-> "pod"], [name |-> "lineSpacing", write |-> "pod"],
     [name |-> "paragraphAlignment", write |-> "pod"], [name |-> "sleepTimeout", write |-> "pod"],
     [name |-> "refreshFrequency", write |-> "pod"], [name |-> "screenMargin", write |-> "pod"],
     [name |-> "sleepScreenCoverMode", write |-> "pod"], [name |-> "opdsServerUrl", write |-> "string"],
     [name |-> "textAntiAliasing", write |-> "pod"], [name |-> "hideBatteryPercentage", write |-> "pod"],
     [name |-> "hyphenationEnabled", write |-> "pod"], [name |-> "longPressChapterSkip", write |-> "pod"],
     [name |-> "opdsUsername", write |-> "string"], [name |-> "opdsPassword", write |-> "string"],
     [name |-> "sleepScreenCoverFilter", write |-> "pod"], [name |-> "uiTheme", write |-> "pod"] >>
saveFieldOrder ==
  << [name |-> "sleepScreen", write |-> "pod"], [name |-> "extraParagraphSpacing", write |-> "pod"],
     [name |-> "shortPwrBtn", write |-> "pod"], [name |-> "statusBar", write |-> "pod"],
     [name |-> "orientation", write |-> "pod"], [name |-> "frontButtonLayout", write |-> "pod"],
     [name |-> "sideButtonLayout", write |-> "pod"], [name |-> "fontFamily", write |-> "pod"],
     [name |-> "fontSize", write |-> "pod"], [name |-> "lineSpacing", write |-> "pod"],
     [name |-> "paragraphAlignment", write |-> "pod"], [name |-> "sleepTimeout", write |-> "pod"],
     [name |-> "refreshFrequency", write |-> "pod"], [name |-> "screenMargin", write |-> "pod"],
     [name |-> "sleepScreenCoverMode", write |-> "pod"], [name |-> "opdsServerUrl", write |-> "string"],
     [name |-> "textAntiAliasing", write |-> "pod"], [name |-> "hideBatteryPercentage", write |-> "pod"],
     [name |-> "longPressChapterSkip", write |-> "pod"], [name |-> "hyphenationEnabled", write |-> "pod"],
     [name |-> "opdsUsername", write |-> "string"], [name |-> "opdsPassword", write |-> "string"],
     [name |-> "sleepScreenCoverFilter", write |-> "pod"], [name |-> "uiTheme", write |-> "pod"] >>

\* The members loadFromFile reads, in the order of its statements: through
\* readAndValidate with the named count ("enum"), through readPod ("pod"),
\* or through readString and strncpy ("string"). The counts are those of
\* the enums in CrossPointSettings.h; uiTheme is a UI_THEME read by readPod.
loadFieldOrder ==
  << [name |-> "sleepScreen", read |-> "enum", count |-> 5],
     [name |-> "extraParagraphSpacing", read |-> "pod", count |-> 256],
     [name |-> "shortPwrBtn", read |-> "enum", count |-> 3],
     [name |-> "statusBar", read |-> "enum", count |-> 4],
     [name |-> "orientation", read |-> "enum", count |-> 4],
     [name |-> "frontButtonLayout", read |-> "enum", count |-> 4],
     [name |-> "sideButtonLayout", read |-> "enum", count |-> 2],
     [name |-> "fontFamily", read |-> "enum", count |-> 3],
     [name |-> "fontSize", read |-> "enum", count |-> 4],
     [name |-> "lineSpacing", read |-> "enum", count |-> 3],
     [name |-> "paragraphAlignment", read |-> "enum", count |-> 4],
     [name |-> "sleepTimeout", read |-> "enum", count |-> 5],
     [name |-> "refreshFrequency", read |-> "enum", count |-> 5],
     [name |-> "screenMargin", read |-> "pod", count |-> 256],
     [name |-> "sleepScreenCoverMode", read |-> "enum", count |-> 2],
     [name |-> "opdsServerUrl", read |-> "string", count |-> 0],
     [name |-> "textAntiAliasing", read |-> "pod", count |-> 256],
     [name |-> "hideBatteryPercentage", read |-> "enum", count |-> 3],
     [name |-> "longPressChapterSkip", read |-> "pod", count |-> 256],
     [name |-> "hyphenationEnabled", read |-> "pod", count |-> 256],
     [name |-> "opdsUsername", read |-> "string", count |-> 0],
     [name |-> "opdsPassword", read |-> "string", count |-> 0],
     [name |-> "sleepScreenCoverFilter", read |-> "enum", count |-> 3],
     [name |-> "uiTheme", read |-> "pod", count |-> 256] >>

SettingNames == {loadFieldOrder[i].name : i \in 1..Len(loadFieldOrder)}

\* The members whose type is an enum: the validated ones and uiTheme.
UI_THEME_COUNT == 2
EnumCount(f) == IF f.name = "uiTheme" THEN UI_THEME_COUNT ELSE f.count
IsEnumField(f) == f.read = "enum" \/ f.name = "uiTheme"

\* serialization::writePod of a uint8_t and serialization::writeString
\* (a 32-bit little-endian length, then the bytes).
writePod(value) == <<value>>
writeString(str) == <<Len(str), 0, 0, 0>> \o str

RECURSIVE writeFields(_, _, _)
writeFields(mem, order, i) ==
  IF i > Len(order) THEN <<>>
  ELSE (IF order[i].write = "string" THEN writeString(mem[order[i].name])
        ELSE writePod(mem[order[i].name]))
         \o writeFields(mem, order, i + 1)

\* CrossPointSettings::saveToFile: the bytes of the file it leaves.
saveToFile(mem) ==
  <<SETTINGS_FILE_VERSION, SETTINGS_COUNT>> \o writeFields(mem, saveFieldOrder, 1)

\* serialization::readPod at the cursor; at the end of the file nothing is
\* read and the destination keeps what it held.
readPod(file, pos) ==
  IF pos < Len(file) THEN [ok |-> TRUE, value |-> file[pos + 1], pos |-> pos + 1]
  ELSE [ok |-> FALSE, value |-> 0, pos |-> pos]

\* serialization::readString at the cursor.
readString(file, pos) ==
  IF pos + 4 <= Len(file)
    THEN LET len == file[pos + 1]
             avail == IF pos + 4 + len <= Len(file) THEN len ELSE Len(file) - (pos + 4)
         IN  [value |-> SubSeq(file, pos + 5, pos + 4 + avail), pos |-> pos + 4 + avail]
    ELSE [value |-> <<>>, pos |-> pos]

\* strncpy(buffer, str, sizeof(buffer) - 1) and the terminating '\0'.
strncpyBuffer(str, size) ==
  IF Len(str) <= size - 1 THEN str ELSE SubSeq(str, 1, size - 1)

\* readAndValidate: tempValue is uninitialised, so holds garbage, when
\* readPod read nothing.
readAndValidate(st, pod, f, garbage) ==
  LET tempValue == IF pod.ok THEN pod.value ELSE garbage
  IN  [mem |-> IF tempValue < f.count THEN [st.mem EXCEPT ![f.name] = tempValue] ELSE st.mem,
       pos |-> pod.pos]

\* One read statement of loadFromFile.
loadField(file, st, f, garbage) ==
  IF f.read = "enum" THEN
    CHOOSE r \in {readAndValidate(st, pod, f, garbage) : pod \in {readPod(file, st.pos)}} : TRUE
  ELSE IF f.read = "pod" THEN
    CHOOSE r \in {[mem |-> IF pod.ok THEN [st.mem EXCEPT ![f.name] = pod.value] ELSE st.mem,
                   pos |-> pod.pos] : pod \in {readPod(file, st.pos)}} : TRUE
  ELSE
    CHOOSE r \in {[mem |-> [st.mem EXCEPT ![f.name] = strncpyBuffer(str.value, OPDS_BUFFER_SIZE)],
                   pos |-> str.pos] : str \in {readString(file, st.pos)}} : TRUE

\* The do { ... if (++settingsRead >= fileSettingsCount) break; ... } while
\* (false) of loadFromFile, from its i-th read statement on.
RECURSIVE loadFields(_, _, _, _, _, _)
loadFields(file, order, st, i, fileSettingsCount, garbage) ==
  CHOOSE out \in
    { IF i >= fileSettingsCount \/ i = Len(order)
        THEN [mem |-> next.mem, pos |-> next.pos, settingsRead |-> i]
        ELSE loadFields(file, order, next, i + 1, fileSettingsCount, garbage)
      : next \in {loadField(file, st, order[i], garbage)} } : TRUE

\* CrossPointSettings::loadFromFile on an opened file.
loadFromFile(file, mem, garbage) ==
  IF file[1] # SETTINGS_FILE_VERSION
    THEN [result |-> FALSE, mem |-> mem, pos |-> 1, settingsRead |-> 0]
    ELSE CHOOSE r \in
           { [result |-> TRUE, mem |-> out.mem, pos |-> out.pos, settingsRead |-> out.settingsRead]
             : out \in {loadFields(file, loadFieldOrder, [mem |-> mem, pos |-> 2], 1, file[2],
                                   garbage)} } : TRUE

\* Settings to save and to find in memory at the next start: every member
\* at zero, at one, at its largest valid value, or one member raised.
LoadField(name) == CHOOSE f \in {loadFieldOrder[i] : i \in 1..Len(loadFieldOrder)} : f.name = name

LargestValue(name) ==
  IF LoadField(name).read = "string" THEN <<104, 116, Len(name)>>
  ELSE IF IsEnumField(LoadField(name)) THEN EnumCount(LoadField(name)) - 1
  ELSE 255

AllZero == [name \in SettingNames |-> IF LoadField(name).read = "string" THEN <<>> ELSE 0]
AllOnes == [name \in SettingNames |-> IF LoadField(name).read = "string" THEN <<112>> ELSE 1]
AllLargest == [name \in SettingNames |-> LargestValue(name)]

SettingsInputs ==
  {AllZero, AllOnes, AllLargest}
    \cup {[AllZero EXCEPT ![name] = LargestValue(name)] : name \in SettingNames}
PreviousSettings == {AllZero, AllOnes, AllLargest}
GarbageBytes == {0, 1, 255}

NoTamper == [kind |-> "none", k |-> SETTINGS_COUNT, field |-> 0, value |-> 0]

\* The file a firmware that knew only the first k members would have saved,
\* and the saved file with only its declared count changed.
olderFile(mem, k) ==
  <<SETTINGS_FILE_VERSION, k>> \o writeFields(mem, SubSeq(saveFieldOrder, 1, k), 1)
declaredFile(file, k) == [file EXCEPT ![2] = k]

\* The saved file with the byte of its i-th member replaced.
corruptFile(file, mem, i, value) ==
  [file EXCEPT ![2 + Len(writeFields(mem, SubSeq(saveFieldOrder, 1, i - 1), 1)) + 1] = value]

Tamperings(saved) ==
  {[kind |-> "older", k |-> k, field |-> 0, value |-> 0] : k \in 0..SETTINGS_COUNT}
    \cup {[kind |-> "declared", k |-> k, field |-> 0, value |-> 0] : k \in 0..SETTINGS_COUNT}
    \cup {[kind |-> "corrupt", k |-> SETTINGS_COUNT, field |-> i, value |-> v] :
            i \in {j \in 1..Len(loadFieldOrder) : IsEnumField(loadFieldOrder[j])},
            v \in {2, 5, 255}}
    \cup {[kind |-> "version", k |-> SETTINGS_COUNT, field |-> 0, value |-> 2]}

tamperedFile(file, saved, t) ==
  IF t.kind = "older" THEN olderFile(saved, t.k)
  ELSE IF t.kind = "declared" THEN declaredFile(file, t.k)
  ELSE IF t.kind = "corrupt" THEN corruptFile(file, saved, t.field, t.value)
  ELSE [file EXCEPT ![1] = t.value]

\* saveToFile on the settings in memory.
SettingsSave ==
  /\ settings.open /\ settings.phase = "edited"
  /\ settings' = [settings EXCEPT !.file = saveToFile(settings.mem), !.saved = settings.mem,
                                  !.phase = "saved"]
  /\ UNCHANGED <<textLayout, chapterSelection, authActivity, homeActivity, myLibrary>>

\* The next start: the settings object holds other values again.
SettingsBoot ==
  /\ settings.open /\ settings.phase = "saved"
  /\ \E previous \in PreviousSettings :
       settings' = [settings EXCEPT !.mem = previous, !.previous = previous, !.phase = "booted"]
  /\ UNCHANGED <<textLayout, chapterSelection, authActivity, homeActivity, myLibrary>>

\* The file on the card is one of an older firmware, or was damaged.
SettingsTamper ==
  /\ settings.open /\ settings.phase = "booted"
  /\ \E t \in Tamperings(settings.saved) :
       /\ t.kind = "corrupt" => t.value >= EnumCount(loadFieldOrder[t.field])
       /\ settings' = [settings EXCEPT !.file = tamperedFile(settings.file, settings.saved, t),
                                       !.tamper = t, !.phase = "tampered"]
  /\ UNCHANGED <<textLayout, chapterSelection, authActivity, homeActivity, myLibrary>>

\* loadFromFile at start-up.
SettingsLoad ==
  /\ settings.open /\ settings.phase \in {"booted", "tampered"}
  /\ \E garbage \in GarbageBytes :
       \E r \in {loadFromFile(settings.file, settings.mem, garbage)} :
         settings' = [settings EXCEPT !.mem = r.mem, !.result = r.result, !.pos = r.pos,
                                      !.settingsRead = r.settingsRead, !.phase = "loaded"]
  /\ UNCHANGED <<textLayout, chapterSelection, authActivity, homeActivity, myLibrary>>

InitSettings ==
  /\ FreshText
  /\ cachedHyphenator = "none"
  /\ style = "JUSTIFIED"
  /\ extraParagraphSpacing = FALSE
  /\ hyphenationEnabled = TRUE
  /\ viewportWidth = 21
  /\ spaceWidth = 3
  /\ addBudget = 0
  /\ layoutBudget = 0
  /\ chapterSelection = NoChapterSelection
  /\ authActivity = NoAuthActivity
  /\ homeActivity = NoHomeActivity
  /\ myLibrary = NoMyLibrary
  /\ \E mem \in SettingsInputs :
       settings = [open |-> TRUE, phase |-> "edited", mem |-> mem, saved |-> mem,
                   previous |-> mem, file |-> <<>>, tamper |-> NoTamper,
                   result |-> FALSE, pos |-> 0, settingsRead |-> 0]

NextSettings ==
  \/ SettingsSave
  \/ SettingsBoot
  \/ SettingsTamper
  \/ SettingsLoad

SpecSettings == InitSettings /\ [][NextSettings]_vars

\* ---------------------------------------------------------------------
\* C37: settings round trip. For settings whose enum members are in range
\* and whose strings fit their buffers, saveToFile followed by loadFromFile
\* restores every one of the 24 persisted members; the members are written
\* and read in the same order, and the count written in the header is the
\* number of members written.
\* ---------------------------------------------------------------------
SettingsRoundTrip ==
  /\ (settings.open /\ settings.phase \in {"saved", "booted"})
       => /\ settings.file[2] = Len(saveFieldOrder)
          /\ \A i \in 1..Len(saveFieldOrder) : saveFieldOrder[i].name = loadFieldOrder[i].name
  /\ (settings.open /\ settings.phase = "loaded" /\ settings.tamper.kind = "none")
       => /\ settings.result
          /\ settings.mem = settings.saved
          /\ settings.settingsRead = SETTINGS_COUNT
          /\ settings.pos = Len(settings.file)

\* Settings at their largest values were saved, memory then held all ones,
\* and the load brought every member back.
SettingsRoundTripWitness ==
  /\ settings.open /\ settings.phase = "loaded" /\ settings.tamper.kind = "none"
  /\ settings.saved = AllLargest
  /\ settings.previous = AllOnes
  /\ settings.mem = AllLargest

\* ---------------------------------------------------------------------
\* C38: settings backward compatibility. On a file whose header declares k
\* members, 0 <= k <= 24, loadFromFile reads exactly the first k members in
\* save order and leaves every other setting at its previous value.
\* ---------------------------------------------------------------------
ReadsFirst(k) ==
  /\ settings.result
  /\ settings.settingsRead = k
  /\ \A i \in 1..Len(loadFieldOrder) :
       settings.mem[loadFieldOrder[i].name]
         = IF i <= k THEN settings.saved[loadFieldOrder[i].name]
           ELSE settings.previous[loadFieldOrder[i].name]

SettingsBackwardCompatible ==
  (settings.open /\ settings.phase = "loaded" /\ settings.tamper.kind \in {"older", "declared"})
    => ReadsFirst(settings.tamper.k)

\* The same for files that declare at least one member.
SettingsBackwardCompatibleFromOne ==
  ( /\ settings.open /\ settings.phase = "loaded"
    /\ settings.tamper.kind \in {"older", "declared"} /\ settings.tamper.k >= 1 )
    => ReadsFirst(settings.tamper.k)

\* ---------------------------------------------------------------------
\* C39: settings validation. A stored value of an enum member that is not
\* below the member's count leaves that setting at its previous value while
\* the members after it are read at their positions; a file of another
\* version makes loadFromFile return false and change no setting.
\* ---------------------------------------------------------------------
KeepsAllBut(i) ==
  /\ settings.result
  /\ \A j \in 1..Len(loadFieldOrder) :
       settings.mem[loadFieldOrder[j].name]
         = IF j = i THEN settings.previous[loadFieldOrder[j].name]
           ELSE settings.saved[loadFieldOrder[j].name]

SettingsValidated ==
  /\ (settings.open /\ settings.phase = "loaded" /\ settings.tamper.kind = "corrupt")
       => KeepsAllBut(settings.tamper.field)
  /\ (settings.open /\ settings.phase = "loaded" /\ settings.tamper.kind = "version")
       => (~settings.result /\ settings.mem = settings.previous)

\* The same for the members read through readAndValidate.
SettingsValidatedWhereChecked ==
  /\ ( /\ settings.open /\ settings.phase = "loaded" /\ settings.tamper.kind = "corrupt"
       /\ loadFieldOrder[settings.tamper.field].read = "enum" )
       => KeepsAllBut(settings.tamper.field)
  /\ (settings.open /\ settings.phase = "loaded" /\ settings.tamper.kind = "version")
       => (~settings.result /\ settings.mem = settings.previous)

====
